---- MODULE Spec2Model ----
(***************************************************************************)
(* A model of xdl's input layer: the double-buffered keyboard bitset       *)
(* (src/src/input/keyboard.rs) and the virtual-input Button built on it    *)
(* and AxisButton (src/src/vi.rs).                                         *)
(*                                                                         *)
(* A u32 word of KeyboardStateSnapshot::bits is modelled as the set of its *)
(* set bit positions (a subset of 0..31); a mask `1 << n` is the set {n},  *)
(* `w |= mask` is union, `w &= !mask` is set difference and `(w & mask)    *)
(* != 0` is a non-empty intersection.  A Duration is a natural number of   *)
(* time units.                                                             *)
(***************************************************************************)
EXTENDS Integers, Sequences, FiniteSets, TLC

VARIABLES
  states,   \* Keyboard::states : Double<KeyboardStateSnapshot>, fields a, b
  button,   \* one vi::Button (input, state, repeat)
  axis,     \* one vi::AxisButton (pos, neg)
  dir,      \* one vi::AxisDirButton (x, y)
  heading,  \* one axis::Dir8 and one axis::Dir4 the host keeps (d8, d4)
  mouse,    \* Mouse: mouses and wheels, each a Double with fields a, b
  hist      \* history variable: the host's most recent calls, newest last

vars == <<states, button, axis, dir, heading, mouse, hist>>

----------------------------------------------------------------------------
(* Key identifiers (enum Key, #[repr(u32)]) *)

Key_None == 0
Key_A == 65
Key_B == 66
Key_LMeta == 91
Key_RMeta == 92
Key_LShift == 160
Key_RShift == 161
Key_LCtrl == 162
Key_RCtrl == 163

NumWords == 8

\* `pub enum Key`: every variant with its `repr(u32)` discriminant
KeyDiscriminants ==
  {
    <<"None", 0>>, <<"Back", 8>>, <<"Tab", 9>>, <<"Enter", 13>>,
    <<"CapsLock", 20>>, <<"Escape", 27>>, <<"Space", 32>>, <<"PageUp", 33>>,
    <<"PageDown", 34>>, <<"End", 35>>, <<"Home", 36>>, <<"Left", 37>>,
    <<"Up", 38>>, <<"Right", 39>>, <<"Down", 40>>, <<"Select", 41>>,
    <<"Print", 42>>, <<"Execute", 43>>, <<"PrintScreen", 44>>,
    <<"Insert", 45>>, <<"Delete", 46>>, <<"Help", 47>>, <<"D0", 48>>,
    <<"D1", 49>>, <<"D2", 50>>, <<"D3", 51>>, <<"D4", 52>>, <<"D5", 53>>,
    <<"D6", 54>>, <<"D7", 55>>, <<"D8", 56>>, <<"D9", 57>>, <<"A", 65>>,
    <<"B", 66>>, <<"C", 67>>, <<"D", 68>>, <<"E", 69>>, <<"F", 70>>,
    <<"G", 71>>, <<"H", 72>>, <<"I", 73>>, <<"J", 74>>, <<"K", 75>>,
    <<"L", 76>>, <<"M", 77>>, <<"N", 78>>, <<"O", 79>>, <<"P", 80>>,
    <<"Q", 81>>, <<"R", 82>>, <<"S", 83>>, <<"T", 84>>, <<"U", 85>>,
    <<"V", 86>>, <<"W", 87>>, <<"X", 88>>, <<"Y", 89>>, <<"Z", 90>>,
    <<"LMeta", 91>>, <<"RMeta", 92>>, <<"Apps", 93>>, <<"Sleep", 95>>,
    <<"NumPad0", 96>>, <<"NumPad1", 97>>, <<"NumPad2", 98>>,
    <<"NumPad3", 99>>, <<"NumPad4", 100>>, <<"NumPad5", 101>>,
    <<"NumPad6", 102>>, <<"NumPad7", 103>>, <<"NumPad8", 104>>,
    <<"NumPad9", 105>>, <<"Multiply", 106>>, <<"Add", 107>>,
    <<"Separator", 108>>, <<"Subtract", 109>>, <<"Decimal", 110>>,
    <<"Divide", 111>>, <<"F1", 112>>, <<"F2", 113>>, <<"F3", 114>>,
    <<"F4", 115>>, <<"F5", 116>>, <<"F6", 117>>, <<"F7", 118>>,
    <<"F8", 119>>, <<"F9", 120>>, <<"F10", 121>>, <<"F11", 122>>,
    <<"F12", 123>>, <<"F13", 124>>, <<"F14", 125>>, <<"F15", 126>>,
    <<"F16", 127>>, <<"F17", 128>>, <<"F18", 129>>, <<"F19", 130>>,
    <<"F20", 131>>, <<"F21", 132>>, <<"F22", 133>>, <<"F23", 134>>,
    <<"F24", 135>>, <<"NumLock", 144>>, <<"Scroll", 145>>, <<"LShift", 160>>,
    <<"RShift", 161>>, <<"LCtrl", 162>>, <<"RCtrl", 163>>, <<"LAlt", 164>>,
    <<"RAlt", 165>>, <<"BrowserBack", 166>>, <<"BrowserForward", 167>>,
    <<"BrowserRefresh", 168>>, <<"BrowserStop", 169>>,
    <<"BrowserSearch", 170>>, <<"BrowserFavorites", 171>>,
    <<"BrowserHome", 172>>, <<"VolumeMute", 173>>, <<"VolumeDown", 174>>,
    <<"VolumeUp", 175>>, <<"MediaNextTrack", 176>>,
    <<"MediaPreviousTrack", 177>>, <<"MediaStop", 178>>,
    <<"MediaPlayPause", 179>>, <<"LaunchMail", 180>>, <<"SelectMedia", 181>>,
    <<"LaunchApplication1", 182>>, <<"LaunchApplication2", 183>>,
    <<"OemSemicolon", 186>>, <<"OemPlus", 187>>, <<"OemComma", 188>>,
    <<"OemMinus", 189>>, <<"OemPeriod", 190>>, <<"OemQuestion", 191>>,
    <<"OemTilde", 192>>, <<"OemOpenBrackets", 219>>, <<"OemPipe", 220>>,
    <<"OemCloseBrackets", 221>>, <<"OemQuotes", 222>>, <<"Oem8", 223>>,
    <<"OemBackslash", 226>>, <<"ProcessKey", 229>>, <<"Attn", 246>>,
    <<"Crsel", 247>>, <<"Exsel", 248>>, <<"EraseEof", 249>>, <<"Play", 250>>,
    <<"Zoom", 251>>, <<"Pa1", 253>>, <<"OemClear", 254>>,
    <<"ChatPadGreen", 202>>, <<"ChatPadOrange", 203>>, <<"Pause", 19>>,
    <<"ImeConvert", 28>>, <<"ImeNoConvert", 29>>, <<"Kana", 21>>,
    <<"Kanji", 25>>, <<"OemAuto", 243>>, <<"OemCopy", 242>>,
    <<"OemEnlW", 244>>
  }

\* Key::X as u32
Key == [name \in {p[1] : p \in KeyDiscriminants} |->
          (CHOOSE p \in KeyDiscriminants : p[1] = name)[2]]

\* The values Key::try_from accepts
KeyValues == {p[2] : p \in KeyDiscriminants}

\* gen_key_translation (SDL2): the pairs (Keycode, Key) collected into the map
gen_key_translation ==
  {
    <<"Keycode::A", "A">>, <<"Keycode::B", "B">>, <<"Keycode::C", "C">>,
    <<"Keycode::D", "D">>, <<"Keycode::E", "E">>, <<"Keycode::F", "F">>,
    <<"Keycode::G", "G">>, <<"Keycode::H", "H">>, <<"Keycode::I", "I">>,
    <<"Keycode::J", "J">>, <<"Keycode::K", "K">>, <<"Keycode::L", "L">>,
    <<"Keycode::M", "M">>, <<"Keycode::N", "N">>, <<"Keycode::O", "O">>,
    <<"Keycode::P", "P">>, <<"Keycode::Q", "Q">>, <<"Keycode::R", "R">>,
    <<"Keycode::S", "S">>, <<"Keycode::T", "T">>, <<"Keycode::U", "U">>,
    <<"Keycode::V", "V">>, <<"Keycode::W", "W">>, <<"Keycode::X", "X">>,
    <<"Keycode::Y", "Y">>, <<"Keycode::Z", "Z">>, <<"Keycode::Num0", "D0">>,
    <<"Keycode::Num1", "D1">>, <<"Keycode::Num2", "D2">>,
    <<"Keycode::Num3", "D3">>, <<"Keycode::Num4", "D4">>,
    <<"Keycode::Num5", "D5">>, <<"Keycode::Num6", "D6">>,
    <<"Keycode::Num7", "D7">>, <<"Keycode::Num8", "D8">>,
    <<"Keycode::Num9", "D9">>, <<"Keycode::Kp0", "NumPad0">>,
    <<"Keycode::Kp1", "NumPad1">>, <<"Keycode::Kp2", "NumPad2">>,
    <<"Keycode::Kp3", "NumPad3">>, <<"Keycode::Kp4", "NumPad4">>,
    <<"Keycode::Kp5", "NumPad5">>, <<"Keycode::Kp6", "NumPad6">>,
    <<"Keycode::Kp7", "NumPad7">>, <<"Keycode::Kp8", "NumPad8">>,
    <<"Keycode::Kp9", "NumPad9">>, <<"Keycode::KpClear", "OemClear">>,
    <<"Keycode::KpDecimal", "Decimal">>, <<"Keycode::KpDivide", "Divide">>,
    <<"Keycode::KpEnter", "Enter">>, <<"Keycode::KpMinus", "Subtract">>,
    <<"Keycode::KpMultiply", "Multiply">>,
    <<"Keycode::KpPeriod", "OemPeriod">>, <<"Keycode::KpPlus", "Add">>,
    <<"Keycode::F1", "F1">>, <<"Keycode::F2", "F2">>,
    <<"Keycode::F3", "F3">>, <<"Keycode::F4", "F4">>,
    <<"Keycode::F5", "F5">>, <<"Keycode::F6", "F6">>,
    <<"Keycode::F7", "F7">>, <<"Keycode::F8", "F8">>,
    <<"Keycode::F9", "F9">>, <<"Keycode::F10", "F10">>,
    <<"Keycode::F11", "F11">>, <<"Keycode::F12", "F12">>,
    <<"Keycode::F13", "F13">>, <<"Keycode::F14", "F14">>,
    <<"Keycode::F15", "F15">>, <<"Keycode::F16", "F16">>,
    <<"Keycode::F17", "F17">>, <<"Keycode::F18", "F18">>,
    <<"Keycode::F19", "F19">>, <<"Keycode::F20", "F20">>,
    <<"Keycode::F21", "F21">>, <<"Keycode::F22", "F22">>,
    <<"Keycode::F23", "F23">>, <<"Keycode::F24", "F24">>,
    <<"Keycode::Space", "Space">>, <<"Keycode::Up", "Up">>,
    <<"Keycode::Down", "Down">>, <<"Keycode::Left", "Left">>,
    <<"Keycode::Right", "Right">>, <<"Keycode::LAlt", "LAlt">>,
    <<"Keycode::RAlt", "RAlt">>, <<"Keycode::LCtrl", "LCtrl">>,
    <<"Keycode::RCtrl", "RCtrl">>, <<"Keycode::LGui", "LMeta">>,
    <<"Keycode::RGui", "RMeta">>, <<"Keycode::LShift", "LShift">>,
    <<"Keycode::RShift", "RShift">>, <<"Keycode::Application", "Apps">>,
    <<"Keycode::Slash", "OemQuestion">>,
    <<"Keycode::Backslash", "OemBackslash">>,
    <<"Keycode::LeftBracket", "OemOpenBrackets">>,
    <<"Keycode::RightBracket", "OemCloseBrackets">>,
    <<"Keycode::CapsLock", "CapsLock">>, <<"Keycode::Comma", "OemComma">>,
    <<"Keycode::Delete", "Delete">>, <<"Keycode::End", "End">>,
    <<"Keycode::Backspace", "Back">>, <<"Keycode::Return", "Enter">>,
    <<"Keycode::Escape", "Escape">>, <<"Keycode::Home", "Home">>,
    <<"Keycode::Insert", "Insert">>, <<"Keycode::Minus", "OemMinus">>,
    <<"Keycode::NumLockClear", "NumLock">>, <<"Keycode::PageUp", "PageUp">>,
    <<"Keycode::PageDown", "PageDown">>, <<"Keycode::Pause", "Pause">>,
    <<"Keycode::Period", "OemPeriod">>, <<"Keycode::Equals", "OemPlus">>,
    <<"Keycode::PrintScreen", "PrintScreen">>,
    <<"Keycode::Quote", "OemQuotes">>, <<"Keycode::ScrollLock", "Scroll">>,
    <<"Keycode::Semicolon", "OemSemicolon">>, <<"Keycode::Sleep", "Sleep">>,
    <<"Keycode::Tab", "Tab">>, <<"Keycode::Backquote", "OemTilde">>,
    <<"Keycode::VolumeUp", "VolumeUp">>,
    <<"Keycode::VolumeDown", "VolumeDown">>
  }

\* Mutant: the row of Keycode::A names Key::None
e2x_a_is_none ==
  [ext \in {p[1] : p \in gen_key_translation} |->
     IF ext = "Keycode::A" THEN Key["None"]
     ELSE Key[(CHOOSE p \in gen_key_translation : p[1] = ext)[2]]]

\* Keyboard::e2x, the map of Keyboard::default.  "Keycode::Mute" has no entry.
e2x ==
  [ext \in {p[1] : p \in gen_key_translation} |->
     Key[(CHOOSE p \in gen_key_translation : p[1] = ext)[2]]]

----------------------------------------------------------------------------
(* KeyboardStateSnapshot *)

\* `1 << ((key as u32) & 0x1f)`
KeyMask(key) == {key % 32}

\* Mutant: the word index taken with the wrong shift (`>> 8`)
KeyIx_shift8(key) == key \div 256

\* `key as usize >> 5`
KeyIx(key) == key \div 32

\* KeyboardStateSnapshot { bits: [0; 8] }
EmptySnapshot == [ix \in 0..(NumWords - 1) |-> {}]

\* Mutant: `=` in place of `|=`
on_key_down_assign(bits, key) == [bits EXCEPT ![KeyIx(key)] = KeyMask(key)]

on_key_down(bits, key) == [bits EXCEPT ![KeyIx(key)] = @ \cup KeyMask(key)]

\* Mutant: `&= mask` in place of `&= !mask`
on_key_up_and_mask(bits, key) == [bits EXCEPT ![KeyIx(key)] = @ \cap KeyMask(key)]

on_key_up(bits, key) == [bits EXCEPT ![KeyIx(key)] = @ \ KeyMask(key)]

is_down(bits, key) == (bits[KeyIx(key)] \cap KeyMask(key)) # {}

is_up(bits, key) == ~is_down(bits, key)

\* A u32 is kept as two 16-bit limbs [hi, lo], since 2^32 - 1 is not a
\* number the checker's integers hold; the shifts and the masks of count_bits
\* act on the set of the bit positions that are set.
RECURSIVE Pow2Rec(_)
Pow2Rec(n) == IF n = 0 THEN 1 ELSE 2 * Pow2Rec(n - 1)

Pow2Table == [n \in 0..16 |-> Pow2Rec(n)]

Pow2(n) == Pow2Table[n]

\* The limb made of the 16 bits of `bits` from position `from` on
RECURSIVE LimbOf(_, _, _)
LimbOf(bits, from, i) ==
  IF i = 16 THEN 0
  ELSE (IF (from + i) \in bits THEN Pow2(i) ELSE 0) + LimbOf(bits, from, i + 1)

\* The u32 whose set bits are `bits`
u32_of(bits) == [hi |-> LimbOf(bits, 16, 0), lo |-> LimbOf(bits, 0, 0)]

\* The set bits of a u32
u32_bits(v) ==
  {i \in 0..15 : (v.lo \div Pow2(i)) % 2 = 1}
    \cup {16 + i : i \in {j \in 0..15 : (v.hi \div Pow2(j)) % 2 = 1}}

\* `a >> k` on the set bits
u32_shr(bits, k) == {i - k : i \in {j \in bits : j >= k}}

\* `a - b` in u32: the wrapped difference, and whether it left 0..2^32-1
u32_sub(a, b) ==
  LET borrow == IF a.lo < b.lo THEN 1 ELSE 0
      lo == a.lo - b.lo + borrow * 65536
      hi == a.hi - b.hi - borrow
  IN [v |-> [hi |-> hi % 65536, lo |-> lo], overflow |-> hi < 0]

\* `a + b` in u32
u32_add(a, b) ==
  LET lo == a.lo + b.lo
      hi == a.hi + b.hi + lo \div 65536
  IN [v |-> [hi |-> hi % 65536, lo |-> lo % 65536], overflow |-> hi >= 65536]

\* `a * b` in u32, by limbs: (a.hi, a.lo) * (b.hi, b.lo)
u32_mul(a, b) ==
  LET p0 == a.lo * b.lo
      p1 == a.lo * b.hi + a.hi * b.lo + p0 \div 65536
      p2 == a.hi * b.hi + p1 \div 65536
  IN [v |-> [hi |-> p1 % 65536, lo |-> p0 % 65536], overflow |-> p2 > 0]

\* The masks of count_bits
Mask_55555555 == {i \in 0..31 : i % 2 = 0}
Mask_33333333 == {i \in 0..31 : i % 4 \in {0, 1}}
Mask_0F0F0F0F == {i \in 0..31 : i % 8 \in 0..3}
Factor_01010101 == {0, 8, 16, 24}

\* The lines of KeyboardStateSnapshot::count_bits on the word whose set bits
\* are `key`: the value returned in wrapping arithmetic, and whether some
\* subtraction, addition or multiplication left 0..2^32-1.
\* `v + (v >> 4) & 0xF0F0F0F` is `(v + (v >> 4)) & 0xF0F0F0F`.
count_bits_u32(key) ==
  LET s1 == u32_sub(u32_of(key), u32_of(u32_shr(key, 1) \cap Mask_55555555))
      v1 == u32_bits(s1.v)
      s2 == u32_add(u32_of(v1 \cap Mask_33333333),
                    u32_of(u32_shr(v1, 2) \cap Mask_33333333))
      v2 == u32_bits(s2.v)
      s3 == u32_add(s2.v, u32_of(u32_shr(v2, 4)))
      s4 == u32_mul(u32_of(u32_bits(s3.v) \cap Mask_0F0F0F0F), u32_of(Factor_01010101))
  IN [result |-> u32_of(u32_shr(u32_bits(s4.v), 24)).lo,
      overflow |-> s1.overflow \/ s2.overflow \/ s3.overflow \/ s4.overflow]

\* KeyboardStateSnapshot::count_bits in a build with or without overflow
\* checks: an operation that leaves the range panics in the first and wraps
\* in the second.
count_bits(key, overflow_checks) ==
  LET c == count_bits_u32(key)
  IN [panic |-> overflow_checks /\ c.overflow, count |-> c.result]

\* KeyboardStateSnapshot::store_keys from bit i on: `pressed_keys` is the
\* slice (1-based here), ix the next index into it
RECURSIVE store_keys_loop(_, _, _, _, _)
store_keys_loop(i, keys, offset, pressed_keys, ix) ==
  IF i = 32
    THEN [panic |-> FALSE, pressed_keys |-> pressed_keys, ix |-> ix]
    ELSE IF i \in keys
           THEN IF (offset + i) \notin KeyValues \/ ix >= Len(pressed_keys)
                  THEN [panic |-> TRUE, pressed_keys |-> pressed_keys, ix |-> ix]
                  ELSE store_keys_loop(i + 1, keys, offset,
                         [pressed_keys EXCEPT ![ix + 1] = offset + i], ix + 1)
           ELSE store_keys_loop(i + 1, keys, offset, pressed_keys, ix)

store_keys(keys, offset, pressed_keys, ix) == store_keys_loop(0, keys, offset, pressed_keys, ix)

\* The `for bits in self.bits.iter()` loop of pressed_keys from word w on
RECURSIVE pressed_keys_loop(_, _, _, _)
pressed_keys_loop(w, bits, keys, ix) ==
  IF w = NumWords
    THEN [panic |-> FALSE, keys |-> keys]
    ELSE IF bits[w] # {}
           THEN LET r == store_keys(bits[w], 0 * 32, keys, ix)
                IN IF r.panic
                     THEN [panic |-> TRUE, keys |-> <<>>]
                     ELSE pressed_keys_loop(w + 1, bits, r.pressed_keys, r.ix)
           ELSE pressed_keys_loop(w + 1, bits, keys, ix)

RECURSIVE SumCounts(_, _, _)
SumCounts(w, bits, overflow_checks) ==
  IF w = NumWords THEN 0
  ELSE count_bits(bits[w], overflow_checks).count + SumCounts(w + 1, bits, overflow_checks)

\* KeyboardStateSnapshot::pressed_keys: the returned Vec, or a panic.
\* `Vec::with_capacity(count)` is an empty Vec.
pressed_keys(bits, overflow_checks) ==
  IF \E w \in 0..(NumWords - 1) : count_bits(bits[w], overflow_checks).panic
    THEN [panic |-> TRUE, keys |-> <<>>]
    ELSE IF SumCounts(0, bits, overflow_checks) = 0
           THEN [panic |-> FALSE, keys |-> <<>>]
           ELSE pressed_keys_loop(0, bits, <<>>, 0)

----------------------------------------------------------------------------
(* Keyboard: single key queries.  `st` is a Double: [a |-> bits, b |-> bits] *)

is_key_down(st, key) == is_down(st.a, key)

is_key_up(st, key) == is_up(st.a, key)

\* Mutant: the two buffers taken the other way round
is_key_pressed_swapped(st, key) == is_up(st.a, key) /\ is_down(st.b, key)

is_key_pressed(st, key) == is_up(st.b, key) /\ is_down(st.a, key)

\* Mutant: only the current buffer is read
is_key_released_current_only(st, key) == is_up(st.a, key)

is_key_released(st, key) == is_down(st.b, key) /\ is_up(st.a, key)

----------------------------------------------------------------------------
(* vi.rs: KeyRepeatConfig, KeyRepeatState *)

NoRepeat == [kind |-> "NoRepeat", first |-> 0, multi |-> 0]

Repeat(first, multi) == [kind |-> "Repeat", first |-> first, multi |-> multi]

\* KeyRepeatState::new
KeyRepeatState_new(cfg) ==
  [config |-> cfg, accum_repeat |-> 0, accum_down |-> 0, is_on_first_repeat |-> FALSE]

\* Mutant: the loop condition is `>=`
RECURSIVE repeat_loop_ge(_, _, _, _)
repeat_loop_ge(accum_repeat, repeat_duration, is_on_first_repeat, is_repeating) ==
  IF accum_repeat >= repeat_duration
    THEN repeat_loop_ge(accum_repeat - repeat_duration, repeat_duration, FALSE, TRUE)
    ELSE [accum_repeat |-> accum_repeat,
          is_on_first_repeat |-> is_on_first_repeat,
          is_repeating |-> is_repeating]

\* `while self.accum_repeat > repeat_duration { ... }`: the loop's final
\* (accum_repeat, is_on_first_repeat, is_repeating).  The loop does not end
\* when repeat_duration is zero and accum_repeat is positive.
RECURSIVE repeat_loop(_, _, _, _)
repeat_loop(accum_repeat, repeat_duration, is_on_first_repeat, is_repeating) ==
  IF accum_repeat > repeat_duration
    THEN repeat_loop(accum_repeat - repeat_duration, repeat_duration, FALSE, TRUE)
    ELSE [accum_repeat |-> accum_repeat,
          is_on_first_repeat |-> is_on_first_repeat,
          is_repeating |-> is_repeating]

\* `let repeat_duration = match self.config { ... }` of the Down arm
repeat_duration(r) == IF r.is_on_first_repeat THEN r.config.first ELSE r.config.multi

\* Whether KeyRepeatState::update returns at all
update_returns(r, state, dt) ==
  (state = "Down" /\ r.config.kind = "Repeat" /\ repeat_duration(r) = 0)
    => r.accum_repeat + dt = 0

\* Mutant: `self.accum_down -= repeat_duration` joins the loop body, so the
\* down time follows the repeat accumulator
KeyRepeatState_update_down_reduced(r, state, dt) ==
  CASE state \in {"Up", "Released"} ->
         [repeat |-> [r EXCEPT !.accum_repeat = 0, !.accum_down = 0,
                               !.is_on_first_repeat = FALSE],
          is_repeating |-> FALSE]
    [] state = "Pressed" ->
         [repeat |-> [r EXCEPT !.accum_repeat = 0, !.accum_down = 0,
                               !.is_on_first_repeat = TRUE],
          is_repeating |-> FALSE]
    [] state = "Down" ->
         IF r.config.kind = "NoRepeat"
           THEN [repeat |-> r, is_repeating |-> FALSE]
           ELSE LET l == repeat_loop(r.accum_repeat + dt, repeat_duration(r),
                                     r.is_on_first_repeat, FALSE)
                IN [repeat |-> [r EXCEPT !.accum_repeat = l.accum_repeat,
                                         !.accum_down = r.accum_down + dt
                                           - (r.accum_repeat + dt - l.accum_repeat),
                                         !.is_on_first_repeat = l.is_on_first_repeat],
                    is_repeating |-> l.is_repeating]

\* Mutant: the Pressed arm is merged into the Up | Released arm, so the
\* first-repeat flag is cleared on a press
KeyRepeatState_update_press_clears(r, state, dt) ==
  CASE state \in {"Up", "Released", "Pressed"} ->
         [repeat |-> [r EXCEPT !.accum_repeat = 0, !.accum_down = 0,
                               !.is_on_first_repeat = FALSE],
          is_repeating |-> FALSE]
    [] state = "Down" ->
         IF r.config.kind = "NoRepeat"
           THEN [repeat |-> r, is_repeating |-> FALSE]
           ELSE LET l == repeat_loop(r.accum_repeat + dt, repeat_duration(r),
                                     r.is_on_first_repeat, FALSE)
                IN [repeat |-> [r EXCEPT !.accum_repeat = l.accum_repeat,
                                         !.accum_down = r.accum_down + dt,
                                         !.is_on_first_repeat = l.is_on_first_repeat],
                    is_repeating |-> l.is_repeating]

\* KeyRepeatState::update: the new timer and the returned flag
KeyRepeatState_update(r, state, dt) ==
  CASE state \in {"Up", "Released"} ->
         [repeat |-> [r EXCEPT !.accum_repeat = 0, !.accum_down = 0,
                               !.is_on_first_repeat = FALSE],
          is_repeating |-> FALSE]
    [] state = "Pressed" ->
         [repeat |-> [r EXCEPT !.accum_repeat = 0, !.accum_down = 0,
                               !.is_on_first_repeat = TRUE],
          is_repeating |-> FALSE]
    [] state = "Down" ->
         IF r.config.kind = "NoRepeat"
           THEN [repeat |-> r, is_repeating |-> FALSE]
           ELSE LET l == repeat_loop(r.accum_repeat + dt, repeat_duration(r),
                                     r.is_on_first_repeat, FALSE)
                IN [repeat |-> [r EXCEPT !.accum_repeat = l.accum_repeat,
                                         !.accum_down = r.accum_down + dt,
                                         !.is_on_first_repeat = l.is_on_first_repeat],
                    is_repeating |-> l.is_repeating]

----------------------------------------------------------------------------
(* vi.rs: KeyEntry, InputBundle *)

KeyEntry(key, ctrl, shift, meta) ==
  [key |-> key, ctrl |-> ctrl, shift |-> shift, meta |-> meta]

\* The keys the `_add!` invocations of one loop iteration visit
added_keys(entry) ==
  {entry.key}
    \cup (IF entry.ctrl THEN {Key_LCtrl, Key_RCtrl} ELSE {})
    \cup (IF entry.shift THEN {Key_LShift, Key_RShift} ELSE {})
    \cup (IF entry.meta THEN {Key_LMeta, Key_RMeta} ELSE {})

\* `let mut is_pressed = true;` then `is_pressed &= input.kbd.is_key_pressed($key)`
entry_is_pressed(entry, st) == \A key \in added_keys(entry) : is_key_pressed(st, key)

\* `let mut is_down = true;` then `is_down &= input.kbd.is_key_down($key)`
entry_is_down(entry, st) == \A key \in added_keys(entry) : is_key_down(st, key)

\* `let mut is_down_prev = true;` then `is_down_prev |= input.kbd.states.b.is_down($key)`
entry_is_down_prev(entry, st) ==
  TRUE \/ (\E key \in added_keys(entry) : is_down(st.b, key))

\* `is_any_released |= is_down_prev && is_down`
entry_is_released(entry, st) == entry_is_down_prev(entry, st) /\ entry_is_down(entry, st)

\* Mutant: the loop returns Down at the first chord that is down, before the
\* later chords are looked at
RECURSIVE state_loop_first_down(_, _, _, _, _)
state_loop_first_down(keys, i, st, is_any_down, is_any_released) ==
  IF i > Len(keys)
    THEN IF is_any_released THEN "Released" ELSE "Up"
    ELSE IF entry_is_pressed(keys[i], st)
           THEN "Pressed"
           ELSE IF entry_is_down(keys[i], st)
                  THEN "Down"
                  ELSE state_loop_first_down(keys, i + 1, st, FALSE,
                         is_any_released \/ entry_is_released(keys[i], st))

\* The `for entry in self.keys.iter()` loop from entry i on, and the final match
RECURSIVE state_loop(_, _, _, _, _)
state_loop(keys, i, st, is_any_down, is_any_released) ==
  IF i > Len(keys)
    THEN IF is_any_down THEN "Down"
         ELSE IF is_any_released THEN "Released" ELSE "Up"
    ELSE IF entry_is_pressed(keys[i], st)
           THEN "Pressed"
           ELSE state_loop(keys, i + 1, st,
                           is_any_down \/ entry_is_down(keys[i], st),
                           is_any_released \/ entry_is_released(keys[i], st))

\* Mutant: a pressed chord is aggregated like a down chord, no early return
InputBundle_state_no_early_return(keys, st) ==
  IF state_loop(keys, 1, st, FALSE, FALSE) = "Pressed"
    THEN "Down"
    ELSE state_loop(keys, 1, st, FALSE, FALSE)

\* InputBundle::state
InputBundle_state(keys, st) == state_loop(keys, 1, st, FALSE, FALSE)

----------------------------------------------------------------------------
(* vi.rs: Button *)

\* Button::new
Button_new(bundle, repeat_cfg) ==
  [input |-> bundle, state |-> "Up", repeat |-> KeyRepeatState_new(repeat_cfg)]

\* serde's form of a unit variant of `Key`: the variant's name
Key_serialize(key) == CHOOSE name \in DOMAIN Key : Key[name] = key

Key_deserialize(name) == Key[name]

\* Derived Serialize of KeyEntry: `skip_serializing_if = "is_false"` leaves a
\* false flag out of the map
KeyEntry_serialize(entry) ==
  [f \in {"key"} \cup {g \in {"ctrl", "shift", "meta"} : entry[g]} |->
     IF f = "key" THEN Key_serialize(entry.key) ELSE "true"]

\* Mutant: a missing flag is read as set
KeyEntry_deserialize_missing_is_true(data) ==
  KeyEntry(Key_deserialize(data.key),
           "ctrl" \notin DOMAIN data \/ data.ctrl = "true",
           "shift" \notin DOMAIN data \/ data.shift = "true",
           "meta" \notin DOMAIN data \/ data.meta = "true")

\* Derived Deserialize of KeyEntry: `serde(default)` reads a missing flag as
\* bool::default()
KeyEntry_deserialize(data) ==
  KeyEntry(Key_deserialize(data.key),
           "ctrl" \in DOMAIN data /\ data.ctrl = "true",
           "shift" \in DOMAIN data /\ data.shift = "true",
           "meta" \in DOMAIN data /\ data.meta = "true")

\* Derived Serialize / Deserialize of InputBundle { keys: Vec<KeyEntry> }
InputBundle_serialize(bundle) ==
  [keys |-> [i \in 1..Len(bundle) |-> KeyEntry_serialize(bundle[i])]]

InputBundle_deserialize(data) ==
  [i \in 1..Len(data.keys) |-> KeyEntry_deserialize(data.keys[i])]

\* button_serde_with::serialize: `value.input.serialize(serializer)`
button_serde_with_serialize(value) == InputBundle_serialize(value.input)

\* button_serde_with::deserialize
button_serde_with_deserialize(data) ==
  Button_new(InputBundle_deserialize(data), NoRepeat)

\* Button::set_repeat_config
Button_set_repeat_config(btn, cfg) == [btn EXCEPT !.repeat = KeyRepeatState_new(cfg)]

\* Mutant: a held button repeats on every update, whatever the timer returns
Button_update_always_repeats(btn, st, dt) ==
  LET state == InputBundle_state(btn.input, st)
      u == KeyRepeatState_update(btn.repeat, state, dt)
  IN [btn EXCEPT !.repeat = u.repeat,
                 !.state = IF state = "Down" THEN "Repeating" ELSE state]

\* Mutant: a press under a Repeat configuration counts as a repeat
Button_update_repeats_on_press(btn, st, dt) ==
  LET state == InputBundle_state(btn.input, st)
      u == KeyRepeatState_update(btn.repeat, state, dt)
  IN [btn EXCEPT !.repeat = u.repeat,
                 !.state = IF u.is_repeating
                                \/ (state = "Pressed" /\ btn.repeat.config.kind = "Repeat")
                             THEN "Repeating" ELSE state]

\* Button::update
Button_update(btn, st, dt) ==
  LET state == InputBundle_state(btn.input, st)
      u == KeyRepeatState_update(btn.repeat, state, dt)
  IN [btn EXCEPT !.repeat = u.repeat,
                 !.state = IF u.is_repeating THEN "Repeating" ELSE state]

\* Mutant: Repeating is left out of the match
Button_is_down_not_repeating(btn) == btn.state \in {"Down", "Pressed"}

Button_is_down(btn) == btn.state \in {"Down", "Pressed", "Repeating"}

Button_is_pressed(btn) == btn.state \in {"Pressed", "Repeating"}

Button_accum_down(btn) == btn.repeat.accum_down

----------------------------------------------------------------------------
(* vi.rs: AxisButton *)

\* The button of a side of the axis
SideButton(ax, s) == IF s = "Pos" THEN ax.pos ELSE ax.neg

\* AxisButton::update
AxisButton_update(ax, st, dt) ==
  [pos |-> Button_update(ax.pos, st, dt), neg |-> Button_update(ax.neg, st, dt)]

\* Mutant: the comparison is `<`
AxisButton_sign_down_lt(ax) ==
  CASE Button_is_down(ax.pos) /\ Button_is_down(ax.neg) ->
         IF ax.pos.repeat.accum_down < ax.neg.repeat.accum_down THEN "Pos" ELSE "Neg"
    [] Button_is_down(ax.pos) /\ ~Button_is_down(ax.neg) -> "Pos"
    [] ~Button_is_down(ax.pos) /\ Button_is_down(ax.neg) -> "Neg"
    [] OTHER -> "Neutral"

\* AxisButton::sign_down
AxisButton_sign_down(ax) ==
  CASE Button_is_down(ax.pos) /\ Button_is_down(ax.neg) ->
         IF ax.pos.repeat.accum_down <= ax.neg.repeat.accum_down THEN "Pos" ELSE "Neg"
    [] Button_is_down(ax.pos) /\ ~Button_is_down(ax.neg) -> "Pos"
    [] ~Button_is_down(ax.pos) /\ Button_is_down(ax.neg) -> "Neg"
    [] OTHER -> "Neutral"

\* AxisButton::sign_pressed
AxisButton_sign_pressed(ax) ==
  CASE Button_is_down(ax.pos) /\ Button_is_down(ax.neg) ->
         IF ax.pos.repeat.accum_down <= ax.neg.repeat.accum_down
           THEN IF Button_is_pressed(ax.pos) THEN "Pos" ELSE "Neutral"
           ELSE IF Button_is_pressed(ax.neg) THEN "Neg" ELSE "Neutral"
    [] Button_is_down(ax.pos) /\ ~Button_is_down(ax.neg) ->
         IF Button_is_pressed(ax.pos) THEN "Pos" ELSE "Neutral"
    [] ~Button_is_down(ax.pos) /\ Button_is_down(ax.neg) ->
         IF Button_is_pressed(ax.neg) THEN "Neg" ELSE "Neutral"
    [] OTHER -> "Neutral"

\* std::cmp::min on Duration
Min(a, b) == IF a <= b THEN a ELSE b

\* AxisButton::accum_down
AxisButton_accum_down(ax) == Min(ax.pos.repeat.accum_down, ax.neg.repeat.accum_down)

-----------------------------------------------------------------------------
(* AxisDirButton: two axes mixed into a direction.  Option<Dir4> and        *)
(* Option<Dir8> are "None" or the variant's name; "unreachable" is the      *)
(* panic of an unreachable!() arm.                                          *)

\* Sign::to_i8
Sign_to_i8(sign) ==
  CASE sign = "Pos" -> 1
    [] sign = "Neg" -> -1
    [] sign = "Neutral" -> 0

\* AxisDirButton::new(repeat, xs, ys): xs and ys are [positive, negative]
AxisDirButton_new(repeat, xs, ys) ==
  [x |-> [pos |-> Button_new(xs[1], repeat), neg |-> Button_new(xs[2], repeat)],
   y |-> [pos |-> Button_new(ys[1], repeat), neg |-> Button_new(ys[2], repeat)]]

\* AxisDirButton::update
AxisDirButton_update(d, st, dt) ==
  [x |-> AxisButton_update(d.x, st, dt), y |-> AxisButton_update(d.y, st, dt)]

\* Mutant: the arm [0, 1] gives N
dir4_south_is_north(d, x, y) ==
  CASE x = 0 /\ y = 0 -> "None"
    [] x = 0 /\ y = -1 -> "N"
    [] x = 1 /\ y = 0 -> "E"
    [] x = 0 /\ y = 1 -> "N"
    [] x = -1 /\ y = 0 -> "W"
    [] OTHER ->
         IF AxisButton_accum_down(d.x) <= AxisButton_accum_down(d.y)
         THEN CASE x = 1 -> "E" [] x = -1 -> "W" [] OTHER -> "unreachable"
         ELSE CASE y = 1 -> "S" [] y = -1 -> "N" [] OTHER -> "unreachable"

\* AxisDirButton::dir4: the arms in the order of the match
dir4(d, x, y) ==
  CASE x = 0 /\ y = 0 -> "None"
    [] x = 0 /\ y = -1 -> "N"
    [] x = 1 /\ y = 0 -> "E"
    [] x = 0 /\ y = 1 -> "S"
    [] x = -1 /\ y = 0 -> "W"
    [] OTHER ->
         IF AxisButton_accum_down(d.x) <= AxisButton_accum_down(d.y)
         THEN CASE x = 1 -> "E" [] x = -1 -> "W" [] OTHER -> "unreachable"
         ELSE CASE y = 1 -> "S" [] y = -1 -> "N" [] OTHER -> "unreachable"

\* Mutant: the arms [0, -1] and [0, 1] are exchanged
dir8_north_south_swapped(x, y) ==
  CASE x = 0 /\ y = 0 -> "None"
    [] x = 0 /\ y = -1 -> "S"
    [] x = 1 /\ y = -1 -> "NE"
    [] x = 1 /\ y = 0 -> "E"
    [] x = 1 /\ y = 1 -> "SE"
    [] x = 0 /\ y = 1 -> "N"
    [] x = -1 /\ y = 1 -> "SW"
    [] x = -1 /\ y = 0 -> "W"
    [] x = -1 /\ y = -1 -> "NW"
    [] OTHER -> "unreachable"

\* AxisDirButton::dir8
dir8(x, y) ==
  CASE x = 0 /\ y = 0 -> "None"
    [] x = 0 /\ y = -1 -> "N"
    [] x = 1 /\ y = -1 -> "NE"
    [] x = 1 /\ y = 0 -> "E"
    [] x = 1 /\ y = 1 -> "SE"
    [] x = 0 /\ y = 1 -> "S"
    [] x = -1 /\ y = 1 -> "SW"
    [] x = -1 /\ y = 0 -> "W"
    [] x = -1 /\ y = -1 -> "NW"
    [] OTHER -> "unreachable"

\* Dir8::from_signs(signs)
Dir8_from_signs(signs) ==
  LET x == Sign_to_i8(signs[1])
      y == Sign_to_i8(signs[2])
  IN CASE x = 0 /\ y = 0 -> "None"
       [] x = 0 /\ y = -1 -> "N"
       [] x = 1 /\ y = -1 -> "NE"
       [] x = 1 /\ y = 0 -> "E"
       [] x = 1 /\ y = 1 -> "SE"
       [] x = 0 /\ y = 1 -> "S"
       [] x = -1 /\ y = 1 -> "SW"
       [] x = -1 /\ y = 0 -> "W"
       [] x = -1 /\ y = -1 -> "NW"
       [] OTHER -> "unreachable"

\* AxisDirButton::dir4_down
dir4_down(d) ==
  dir4(d, Sign_to_i8(AxisButton_sign_down(d.x)), Sign_to_i8(AxisButton_sign_down(d.y)))

\* AxisDirButton::dir4_pressed
dir4_pressed(d) ==
  dir4(d, Sign_to_i8(AxisButton_sign_pressed(d.x)),
          Sign_to_i8(AxisButton_sign_pressed(d.y)))

\* AxisDirButton::dir8_down
dir8_down(d) ==
  dir8(Sign_to_i8(AxisButton_sign_down(d.x)), Sign_to_i8(AxisButton_sign_down(d.y)))

\* AxisDirButton::dir8_pressed
dir8_pressed(d) ==
  dir8(Sign_to_i8(AxisButton_sign_pressed(d.x)), Sign_to_i8(AxisButton_sign_pressed(d.y)))

-----------------------------------------------------------------------------
(* axis.rs: Sign, Dir4, Dir8.  A direction is its variant's name.           *)

Dir4Values == {"N", "E", "S", "W"}

Dir8Values == {"N", "NE", "E", "SE", "S", "SW", "W", "NW"}

\* Dir4::x_sign
Dir4_x_sign(d) ==
  CASE d \in {"E"} -> "Pos"
    [] d \in {"N", "S"} -> "Neutral"
    [] d \in {"W"} -> "Neg"

\* Dir4::y_sign
Dir4_y_sign(d) ==
  CASE d \in {"N"} -> "Pos"
    [] d \in {"E", "W"} -> "Neutral"
    [] d \in {"S"} -> "Neg"

\* Dir4::signs
Dir4_signs(d) == <<Dir4_x_sign(d), Dir4_y_sign(d)>>

\* Dir4::inv
Dir4_inv(d) ==
  CASE d = "N" -> "S"
    [] d = "E" -> "W"
    [] d = "S" -> "N"
    [] d = "W" -> "E"

\* Dir8::x_sign
Dir8_x_sign(d) ==
  CASE d \in {"W", "NW", "SW"} -> "Neg"
    [] d \in {"E", "NE", "SE"} -> "Pos"
    [] d \in {"N", "S"} -> "Neutral"

\* Dir8::y_sign
Dir8_y_sign(d) ==
  CASE d \in {"N", "NE", "NW"} -> "Neg"
    [] d \in {"S", "SE", "SW"} -> "Pos"
    [] d \in {"E", "W"} -> "Neutral"

\* Dir8::signs
Dir8_signs(d) == <<Dir8_x_sign(d), Dir8_y_sign(d)>>

\* Dir8::CLOCKWISE
Dir8_CLOCKWISE == <<"N", "NE", "E", "SE", "S", "SW", "W", "NW">>

\* Dir8::inv
Dir8_inv(d) ==
  CASE d = "N" -> "S"
    [] d = "NE" -> "SW"
    [] d = "E" -> "W"
    [] d = "SE" -> "NW"
    [] d = "S" -> "N"
    [] d = "SW" -> "NE"
    [] d = "W" -> "E"
    [] d = "NW" -> "SE"

\* Dir8::r45
Dir8_r45(d) ==
  CASE d = "N" -> "NE"
    [] d = "NE" -> "E"
    [] d = "E" -> "SE"
    [] d = "SE" -> "S"
    [] d = "S" -> "SW"
    [] d = "SW" -> "W"
    [] d = "W" -> "NW"
    [] d = "NW" -> "N"

\* Dir8::l45
Dir8_l45(d) ==
  CASE d = "N" -> "NW"
    [] d = "NE" -> "W"
    [] d = "E" -> "NE"
    [] d = "SE" -> "E"
    [] d = "S" -> "SE"
    [] d = "SW" -> "SW"
    [] d = "W" -> "SW"
    [] d = "NW" -> "W"

\* Dir8::r90
Dir8_r90(d) ==
  CASE d = "N" -> "E"
    [] d = "NE" -> "SE"
    [] d = "E" -> "S"
    [] d = "SE" -> "SW"
    [] d = "S" -> "W"
    [] d = "SW" -> "NW"
    [] d = "W" -> "N"
    [] d = "NW" -> "NE"

\* Dir8::l90
Dir8_l90(d) ==
  CASE d = "N" -> "W"
    [] d = "NE" -> "NE"
    [] d = "E" -> "N"
    [] d = "SE" -> "NE"
    [] d = "S" -> "E"
    [] d = "SW" -> "SE"
    [] d = "W" -> "S"
    [] d = "NW" -> "SW"

-----------------------------------------------------------------------------
(* mouse.rs: Mouse, MouseInput, MouseSnapshot.  `flags` is the set of the   *)
(* bit positions that are set; of Mouse, the window pointer is left out.    *)
(* In Double<MouseSnapshot>, b is the current snapshot and a the previous.  *)

\* enum MouseInput: the button numbers of SDL
SDL_BUTTON_LEFT == 1
SDL_BUTTON_MIDDLE == 2
SDL_BUTTON_RIGHT == 3
SDL_BUTTON_X1 == 4
SDL_BUTTON_X2 == 5

MouseInput ==
  [Left |-> SDL_BUTTON_LEFT, Right |-> SDL_BUTTON_RIGHT, Mid |-> SDL_BUTTON_MIDDLE,
   X1 |-> SDL_BUTTON_X1, X2 |-> SDL_BUTTON_X2]

MouseInputs == {MouseInput[name] : name \in DOMAIN MouseInput}

\* `self.wheels.b += y * 120`
WheelUnit == 120

\* MouseSnapshot::default
MouseSnapshot_default == [x |-> 0, y |-> 0, flags |-> {}]

\* MouseSnapshot::mask: 1 << (button - 1)
MouseSnapshot_mask(btn) == {btn - 1}

\* MouseSnapshot::is_down
MouseSnapshot_is_down(snapshot, input) ==
  (snapshot.flags \cap MouseSnapshot_mask(input)) # {}

\* MouseSnapshot::is_up
MouseSnapshot_is_up(snapshot, input) == ~MouseSnapshot_is_down(snapshot, input)

\* Mouse::new
Mouse_new ==
  [mouses |-> [a |-> MouseSnapshot_default, b |-> MouseSnapshot_default],
   wheels |-> [a |-> 0, b |-> 0]]

\* Mouse::event, arm Event::MouseWheel { y, .. }
Mouse_event_wheel(m, y) == [m EXCEPT !.wheels.b = @ + y * WheelUnit]

\* Mouse::update: x, y and flags are what SDL reports
Mouse_update(m, x, y, flags) == [m EXCEPT !.mouses.b = [x |-> x, y |-> y, flags |-> flags]]

\* Mouse::on_end_frame
Mouse_on_end_frame(m) == [m EXCEPT !.mouses.a = m.mouses.b, !.wheels.a = m.wheels.b]

\* Mouse::is_down
Mouse_is_down(m, input) == MouseSnapshot_is_down(m.mouses.b, input)

\* Mouse::is_up
Mouse_is_up(m, input) == MouseSnapshot_is_up(m.mouses.b, input)

\* Mouse::is_pressed
Mouse_is_pressed(m, input) ==
  MouseSnapshot_is_down(m.mouses.b, input) /\ ~MouseSnapshot_is_down(m.mouses.a, input)

\* Mouse::is_released
Mouse_is_released(m, input) ==
  ~MouseSnapshot_is_down(m.mouses.b, input) /\ MouseSnapshot_is_down(m.mouses.a, input)

\* Mouse::is_any_down: `inputs.into_iter().any(|input| self.is_down(*input))`
Mouse_is_any_down(m, inputs) == \E input \in inputs : Mouse_is_down(m, input)

\* Mouse::is_any_up
Mouse_is_any_up(m, inputs) == \E input \in inputs : Mouse_is_up(m, input)

\* Mouse::is_any_pressed: the closure calls is_down
Mouse_is_any_pressed(m, inputs) == \E input \in inputs : Mouse_is_down(m, input)

\* Mouse::is_any_released: the closure calls is_down
Mouse_is_any_released(m, inputs) == \E input \in inputs : Mouse_is_down(m, input)

----------------------------------------------------------------------------
(* Bounds and the inputs the host supplies *)

\* The longest call history SpecKbd explores from initialization
HistLen == 5

\* The largest `dt` passed to Button::update
MaxDt == 1

\* Button::update is not explored past this accumulated down time
MaxAccum == 3

\* KeyRepeatConfig::Repeat { first, multi } of the model's repeating button
FirstDelay == 2
MultiDelay == 1

\* Native keys that deliver events
ExtKeys == {"Keycode::A", "Keycode::B", "Keycode::LCtrl", "Keycode::RCtrl"}
KbdExtKeys == {"Keycode::A", "Keycode::LCtrl", "Keycode::RCtrl"}

\* Every key of the model
Keys == {Key_A, Key_B, Key_LCtrl, Key_RCtrl}

\* Chords: a primary key with or without the ctrl requirement
Chords == {KeyEntry(key, ctrl, FALSE, FALSE) : key \in {Key_A, Key_B}, ctrl \in BOOLEAN}

\* Bundles: at most two chords, in every order
Bundles == {<<>>} \cup {<<c>> : c \in Chords} \cup {<<c, d>> : c \in Chords, d \in Chords}

RepeatConfigs == {NoRepeat, Repeat(FirstDelay, MultiDelay)}

\* SpecTimer: the largest `dt`, the longest down time and the longest run of
\* updates it follows
MaxTick == 2
MaxHeld == 5
MaxRun == 6

\* SpecTimer: the button's chord and the configurations it is given
TimerBundle == <<KeyEntry(Key_A, FALSE, FALSE, FALSE)>>
TimerConfigs == RepeatConfigs \cup {Repeat(FirstDelay, FirstDelay)}

\* SpecFrames: the longest call history it explores from initialization
MaxCalls == 7

\* SpecAxis: the most frames a side is followed after its press
MaxFrames == 3

\* SpecEvents: the most keys held down at once
MaxDown == 2

\* Updates a button of the directional button stays down
MaxDirFrames == 2

\* SpecTurn: the number of calls it follows from each starting heading
MaxTurns == 2

\* SpecMouse: the largest cursor coordinate and the most wheel notches in
\* either direction
MaxPos == 1
MaxWheel == 1

\* SpecMouse: the buttons SDL reports as down
ReportedButtons == {SDL_BUTTON_LEFT, SDL_BUTTON_X2}

\* The Dir8 methods SpecTurn calls
TurnOps == {"r45", "l45", "r90", "l90", "inv"}

\* SpecZero: the configurations with an interval of zero beside the usual ones
ZeroConfigs ==
  RepeatConfigs \cup {Repeat(0, MultiDelay), Repeat(FirstDelay, 0), Repeat(0, 0)}

\* SpecEvents: a native key for every word of the bitset, two for word 2,
\* and one without a row in the translation table
EventKeys ==
  {"Keycode::Backspace", "Keycode::Num0", "Keycode::A", "Keycode::B",
   "Keycode::Kp0", "Keycode::F17", "Keycode::Slash", "Keycode::Backquote",
   "Keycode::KpClear", "Keycode::Mute"}

\* The axis: the positive side on key A, the negative side on key B
PosBundle == <<KeyEntry(Key_A, FALSE, FALSE, FALSE)>>
NegBundle == <<KeyEntry(Key_B, FALSE, FALSE, FALSE)>>

\* The axis of the specifications that do not update it
AxisIdle == [pos |-> Button_new(PosBundle, NoRepeat), neg |-> Button_new(NegBundle, NoRepeat)]

\* The four bundles of the directional button: [positive, negative] of x and
\* of y, y growing downwards
DirXs == <<<<KeyEntry(Key["Right"], FALSE, FALSE, FALSE)>>,
           <<KeyEntry(Key["Left"], FALSE, FALSE, FALSE)>>>>
DirYs == <<<<KeyEntry(Key["Down"], FALSE, FALSE, FALSE)>>,
           <<KeyEntry(Key["Up"], FALSE, FALSE, FALSE)>>>>

\* The heading of the specifications that do not turn it
HeadingIdle == [d8 |-> "N", d4 |-> "N"]

\* The directional button of the specifications that do not update it
DirIdle == AxisDirButton_new(NoRepeat, DirXs, DirYs)

----------------------------------------------------------------------------
(* Keyboard: event handlers as functions of the Double *)

\* Keyboard::default
Keyboard_default == [a |-> EmptySnapshot, b |-> EmptySnapshot]

\* Mutant: a key without a row is taken for Key::None
Keyboard_on_key_down_or_none(st, external_key) ==
  [st EXCEPT !.a = on_key_down(@, IF external_key \in DOMAIN e2x
                                    THEN e2x[external_key] ELSE Key_None)]

\* Keyboard::on_key_down
Keyboard_on_key_down(st, external_key) ==
  IF external_key \in DOMAIN e2x
    THEN [st EXCEPT !.a = on_key_down(@, e2x[external_key])]
    ELSE st

\* Keyboard::on_key_up
Keyboard_on_key_up(st, external_key) ==
  IF external_key \in DOMAIN e2x
    THEN [st EXCEPT !.a = on_key_up(@, e2x[external_key])]
    ELSE st

\* Mutant: the buffers are exchanged instead of copied
Keyboard_on_end_frame_swap(st) == [a |-> st.b, b |-> st.a]

\* Mutant: the previous buffer is emptied instead of overwritten
Keyboard_on_end_frame_clear(st) == [st EXCEPT !.b = EmptySnapshot]

\* Mutant: the copy is left out
Keyboard_on_end_frame_noop(st) == st

\* Mutant: only the current buffer is reset
Keyboard_clear_current_only(st) == [st EXCEPT !.a = EmptySnapshot]

\* Keyboard::clear: both buffers become `bits: [0; 8]`
Keyboard_clear(st) == [a |-> EmptySnapshot, b |-> EmptySnapshot]

\* Keyboard::on_end_frame
Keyboard_on_end_frame(st) == [st EXCEPT !.b = st.a]

----------------------------------------------------------------------------
(* The history variable *)

Call(op, key, dt) == [op |-> op, key |-> key, dt |-> dt]

\* hist with `call` appended, keeping the n most recent calls
Remember(call, n) ==
  LET h == Append(hist, call)
  IN SubSeq(h, IF Len(h) > n THEN Len(h) - n + 1 ELSE 1, Len(h))

----------------------------------------------------------------------------
(* Actions: the calls the host makes.  n is the number of calls hist keeps. *)

\* Keyboard::event, arm Event::KeyDown
KeyDownEvent(ext, n) ==
  /\ states' = Keyboard_on_key_down(states, ext)
  /\ hist' = Remember(Call("key_down", ext, 0), n)
  /\ UNCHANGED <<button, axis, dir, heading, mouse>>

\* Keyboard::event, arm Event::KeyUp
KeyUpEvent(ext, n) ==
  /\ states' = Keyboard_on_key_up(states, ext)
  /\ hist' = Remember(Call("key_up", ext, 0), n)
  /\ UNCHANGED <<button, axis, dir, heading, mouse>>

\* Input::on_end_frame
OnEndFrame(n) ==
  /\ states' = Keyboard_on_end_frame(states)
  /\ mouse' = Mouse_on_end_frame(mouse)
  /\ hist' = Remember(Call("on_end_frame", "", 0), n)
  /\ UNCHANGED <<button, axis, dir, heading>>

\* Button::update(&input, dt)
UpdateButton(dt, n) ==
  /\ update_returns(button.repeat, InputBundle_state(button.input, states), dt)
  /\ Button_accum_down(Button_update(button, states, dt)) <= MaxAccum
  /\ button' = Button_update(button, states, dt)
  /\ hist' = Remember(Call("update", "", dt), n)
  /\ UNCHANGED <<states, axis, dir, heading, mouse>>

\* Input::clear, which calls Keyboard::clear
ClearInput(n) ==
  /\ states' = Keyboard_clear(states)
  /\ hist' = Remember(Call("clear", "", 0), n)
  /\ UNCHANGED <<button, axis, dir, heading, mouse>>

\* Button::set_repeat_config(cfg)
SetRepeatConfig(cfg, n) ==
  /\ button' = Button_set_repeat_config(button, cfg)
  /\ hist' = Remember(Call("set_repeat_config", "", 0), n)
  /\ UNCHANGED <<states, axis, dir, heading, mouse>>

----------------------------------------------------------------------------
(* Spec: the keyboard and one Button, any interleaving of calls.  hist is   *)
(* <<the update call>> right after Button::update and empty after any      *)
(* keyboard call.                                                          *)

Init ==
  /\ states = Keyboard_default
  /\ \E bundle \in Bundles, cfg \in RepeatConfigs : button = Button_new(bundle, cfg)
  /\ axis = AxisIdle
  /\ dir = DirIdle
  /\ heading = HeadingIdle
  /\ mouse = Mouse_new
  /\ hist = <<>>

Next ==
  \/ \E ext \in ExtKeys : KeyDownEvent(ext, 0)
  \/ \E ext \in ExtKeys : KeyUpEvent(ext, 0)
  \/ OnEndFrame(0)
  \/ \E dt \in 0..MaxDt : UpdateButton(dt, 1)
  \/ \E cfg \in RepeatConfigs : SetRepeatConfig(cfg, 0)

Spec == Init /\ [][Next]_vars

(* SpecKbd: the keyboard alone, every call sequence of at most HistLen calls *)
(* from initialization, hist being the whole sequence                        *)

InitKbd ==
  /\ states = Keyboard_default
  /\ button = Button_new(<<>>, NoRepeat)
  /\ axis = AxisIdle
  /\ dir = DirIdle
  /\ heading = HeadingIdle
  /\ mouse = Mouse_new
  /\ hist = <<>>

NextKbd ==
  /\ Len(hist) < HistLen
  /\ \/ \E ext \in KbdExtKeys : KeyDownEvent(ext, HistLen)
     \/ \E ext \in KbdExtKeys : KeyUpEvent(ext, HistLen)
     \/ OnEndFrame(HistLen)

SpecKbd == InitKbd /\ [][NextKbd]_vars

----------------------------------------------------------------------------
(* SpecTimer: one single-key Button and its repeat timer, any interleaving  *)
(* of calls.  hist is the current run of Button::update calls: the latest   *)
(* update whose bundle state was not Down and the Down updates after it,    *)
(* each with its dt, the bundle state and the resulting button state.       *)
(* set_repeat_config starts the run afresh.                                 *)

UpdateRecord(dt, raw, state) == [op |-> "update", dt |-> dt, raw |-> raw, state |-> state]

\* Keyboard::event, arm Event::KeyDown
KeyDown(ext) ==
  /\ states' = Keyboard_on_key_down(states, ext)
  /\ UNCHANGED <<button, axis, dir, heading, mouse, hist>>

\* Keyboard::event, arm Event::KeyUp
KeyUp(ext) ==
  /\ states' = Keyboard_on_key_up(states, ext)
  /\ UNCHANGED <<button, axis, dir, heading, mouse, hist>>

\* Input::on_end_frame
EndFrame ==
  /\ states' = Keyboard_on_end_frame(states)
  /\ mouse' = Mouse_on_end_frame(mouse)
  /\ UNCHANGED <<button, axis, dir, heading, hist>>

\* Button::update(&input, dt)
Update(dt) ==
  LET raw == InputBundle_state(button.input, states)
      btn == Button_update(button, states, dt)
      rec == UpdateRecord(dt, raw, btn.state)
  IN /\ update_returns(button.repeat, raw, dt)
     /\ Button_accum_down(btn) <= MaxHeld
     /\ raw = "Down" => Len(hist) < MaxRun
     /\ button' = btn
     /\ hist' = IF raw = "Down" THEN Append(hist, rec) ELSE <<rec>>
     /\ UNCHANGED <<states, axis, dir, heading, mouse>>

\* Button::set_repeat_config(cfg)
Reconfigure(cfg) ==
  /\ button' = Button_set_repeat_config(button, cfg)
  /\ hist' = <<>>
  /\ UNCHANGED <<states, axis, dir, heading, mouse>>

InitTimer ==
  /\ states = Keyboard_default
  /\ \E cfg \in TimerConfigs : button = Button_new(TimerBundle, cfg)
  /\ axis = AxisIdle
  /\ dir = DirIdle
  /\ heading = HeadingIdle
  /\ mouse = Mouse_new
  /\ hist = <<>>

NextTimer ==
  \/ KeyDown("Keycode::A")
  \/ KeyUp("Keycode::A")
  \/ EndFrame
  \/ \E dt \in 0..MaxTick : Update(dt)
  \/ \E cfg \in TimerConfigs : Reconfigure(cfg)

SpecTimer == InitTimer /\ [][NextTimer]_vars

----------------------------------------------------------------------------
(* SpecFrames: a host loop around the keyboard and one single-key Button.   *)
(* A frame is the key events of the tick followed by one Button::update     *)
(* and one on_end_frame, in either order.  hist is the whole sequence of    *)
(* calls from initialization, at most MaxCalls long.                        *)

\* The index of the latest key event in hist (0 when there is none)
LastKeyEvent ==
  LET evs == {i \in 1..Len(hist) : hist[i].op \in {"key_down", "key_up"}}
  IN IF evs = {} THEN 0 ELSE CHOOSE i \in evs : \A j \in evs : j <= i

\* One of the frame's two calls has been made and the other has not
MidFrame == (Len(hist) - LastKeyEvent) % 2 = 1

LastCallIs(op) == hist # <<>> /\ hist[Len(hist)].op = op

InitFrames ==
  /\ states = Keyboard_default
  /\ \E cfg \in RepeatConfigs : button = Button_new(TimerBundle, cfg)
  /\ axis = AxisIdle
  /\ dir = DirIdle
  /\ heading = HeadingIdle
  /\ mouse = Mouse_new
  /\ hist = <<>>

NextFrames ==
  /\ Len(hist) < MaxCalls
  /\ \/ ~MidFrame /\ KeyDownEvent("Keycode::A", MaxCalls)
     \/ ~MidFrame /\ KeyUpEvent("Keycode::A", MaxCalls)
     \/ (MidFrame => LastCallIs("on_end_frame")) /\ \E dt \in 0..MaxDt : UpdateButton(dt, MaxCalls)
     \/ (MidFrame => LastCallIs("update")) /\ OnEndFrame(MaxCalls)

SpecFrames == InitFrames /\ [][NextFrames]_vars

----------------------------------------------------------------------------
(* SpecAxis: a host loop around the keyboard and one AxisButton.  A frame   *)
(* is the key events of the tick, then AxisButton::update, then             *)
(* on_end_frame.  hist is a record: `updated` tells that the frame's        *)
(* update has been called and its on_end_frame has not; `frames` gives for  *)
(* each side the number of updates since the one of the frame in which its  *)
(* key went down, -1 when the key was up at the latest update.              *)

SideKey == [Pos |-> Key_A, Neg |-> Key_B]

\* The frame counts after an update that sees the buffers `st`
FramesAfter(st) ==
  [s \in {"Pos", "Neg"} |->
     IF is_up(st.a, SideKey[s]) THEN -1
     ELSE IF is_up(st.b, SideKey[s]) THEN 0
     ELSE hist.frames[s] + 1]

\* AxisButton::update(&input, dt)
UpdateAxis(dt) ==
  LET ax == AxisButton_update(axis, states, dt)
      frames == FramesAfter(states)
  IN /\ ~hist.updated
     /\ update_returns(axis.pos.repeat, InputBundle_state(axis.pos.input, states), dt)
     /\ update_returns(axis.neg.repeat, InputBundle_state(axis.neg.input, states), dt)
     /\ \A s \in {"Pos", "Neg"} : frames[s] <= MaxFrames
     /\ axis' = ax
     /\ hist' = [updated |-> TRUE, frames |-> frames]
     /\ UNCHANGED <<states, button, dir, heading, mouse>>

\* Input::on_end_frame, closing the frame
AxisEndFrame ==
  /\ hist.updated
  /\ states' = Keyboard_on_end_frame(states)
  /\ mouse' = Mouse_on_end_frame(mouse)
  /\ hist' = [hist EXCEPT !.updated = FALSE]
  /\ UNCHANGED <<button, axis, dir, heading>>

InitAxis ==
  /\ states = Keyboard_default
  /\ button = Button_new(<<>>, NoRepeat)
  /\ \E cp \in RepeatConfigs, cn \in RepeatConfigs :
       axis = [pos |-> Button_new(PosBundle, cp), neg |-> Button_new(NegBundle, cn)]
  /\ dir = DirIdle
  /\ heading = HeadingIdle
  /\ mouse = Mouse_new
  /\ hist = [updated |-> FALSE, frames |-> [s \in {"Pos", "Neg"} |-> -1]]

NextAxis ==
  \/ ~hist.updated /\ \E ext \in {"Keycode::A", "Keycode::B"} : KeyDown(ext)
  \/ ~hist.updated /\ \E ext \in {"Keycode::A", "Keycode::B"} : KeyUp(ext)
  \/ \E dt \in 1..MaxDt : UpdateAxis(dt)
  \/ AxisEndFrame

SpecAxis == InitAxis /\ [][NextAxis]_vars

-----------------------------------------------------------------------------
(* SpecDir: one AxisDirButton on the arrow keys, the four buttons sharing   *)
(* one repeat configuration, driven in the frame order of SpecAxis.  hist   *)
(* records whether the frame's update has run and, for each of the four     *)
(* buttons, how many updates ago it went down (-1: up).                     *)

DirSides == {<<"x", "Pos">>, <<"x", "Neg">>, <<"y", "Pos">>, <<"y", "Neg">>}

DirKeycodes == {"Keycode::Right", "Keycode::Left", "Keycode::Down", "Keycode::Up"}

\* The button of one side of one axis
DirButton(d, side) == SideButton(d[side[1]], side[2])

\* The key of one side: each bundle of `dir` holds one key
DirSideKey(side) == DirButton(dir, side).input[1].key

\* The frame counts after an update that sees the buffers `st`
DirFramesAfter(st) ==
  [side \in DirSides |->
     IF is_up(st.a, DirSideKey(side)) THEN -1
     ELSE IF is_up(st.b, DirSideKey(side)) THEN 0
     ELSE hist.frames[side] + 1]

\* AxisDirButton::update(&input, dt)
UpdateDir(dt) ==
  LET frames == DirFramesAfter(states)
  IN /\ ~hist.updated
     /\ \A side \in DirSides :
          update_returns(DirButton(dir, side).repeat,
                         InputBundle_state(DirButton(dir, side).input, states), dt)
     /\ \A side \in DirSides : frames[side] <= MaxDirFrames
     /\ dir' = AxisDirButton_update(dir, states, dt)
     /\ hist' = [updated |-> TRUE, frames |-> frames]
     /\ UNCHANGED <<states, button, axis, heading, mouse>>

\* Input::on_end_frame, closing the frame
DirEndFrame ==
  /\ hist.updated
  /\ states' = Keyboard_on_end_frame(states)
  /\ mouse' = Mouse_on_end_frame(mouse)
  /\ hist' = [hist EXCEPT !.updated = FALSE]
  /\ UNCHANGED <<button, axis, dir, heading>>

InitDir ==
  /\ states = Keyboard_default
  /\ button = Button_new(<<>>, NoRepeat)
  /\ axis = AxisIdle
  /\ \E repeat \in RepeatConfigs : dir = AxisDirButton_new(repeat, DirXs, DirYs)
  /\ heading = HeadingIdle
  /\ mouse = Mouse_new
  /\ hist = [updated |-> FALSE, frames |-> [side \in DirSides |-> -1]]

NextDir ==
  \/ ~hist.updated /\ \E ext \in DirKeycodes : KeyDown(ext)
  \/ ~hist.updated /\ \E ext \in DirKeycodes : KeyUp(ext)
  \/ \E dt \in 1..MaxDt : UpdateDir(dt)
  \/ DirEndFrame

SpecDir == InitDir /\ [][NextDir]_vars

-----------------------------------------------------------------------------
(* SpecMouse: the mouse alone under wheel events, Input::update and         *)
(* Input::on_end_frame.  hist stays empty.                                  *)

\* Input::event with an Event::MouseWheel
MouseWheel(y) ==
  /\ Mouse_event_wheel(mouse, y).wheels.b \in
       (-(MaxWheel * WheelUnit))..(MaxWheel * WheelUnit)
  /\ mouse' = Mouse_event_wheel(mouse, y)
  /\ UNCHANGED <<states, button, axis, dir, heading, hist>>

\* Input::update, which calls Mouse::update
MouseUpdate(x, y, flags) ==
  /\ mouse' = Mouse_update(mouse, x, y, flags)
  /\ UNCHANGED <<states, button, axis, dir, heading, hist>>

InitMouse ==
  /\ states = Keyboard_default
  /\ button = Button_new(<<>>, NoRepeat)
  /\ axis = AxisIdle
  /\ dir = DirIdle
  /\ heading = HeadingIdle
  /\ mouse = Mouse_new
  /\ hist = <<>>

NextMouse ==
  \/ \E y \in {-1, 1} : MouseWheel(y)
  \/ \E x \in 0..MaxPos, y \in 0..MaxPos, down \in SUBSET ReportedButtons :
       MouseUpdate(x, y, UNION {MouseSnapshot_mask(btn) : btn \in down})
  \/ EndFrame

SpecMouse == InitMouse /\ [][NextMouse]_vars

-----------------------------------------------------------------------------
(* SpecTurn: a Dir8 and a Dir4 value, starting anywhere, under the methods  *)
(* of axis.rs that return a direction.  hist is the sequence of calls, each *)
(* with the heading it was made on.                                         *)

\* The Dir8 method `op` applied to d
Dir8_apply(op, d) ==
  CASE op = "r45" -> Dir8_r45(d)
    [] op = "l45" -> Dir8_l45(d)
    [] op = "r90" -> Dir8_r90(d)
    [] op = "l90" -> Dir8_l90(d)
    [] op = "inv" -> Dir8_inv(d)

\* heading.d8 = heading.d8.<op>()
Turn8(op) ==
  /\ Len(hist) < MaxTurns
  /\ heading' = [heading EXCEPT !.d8 = Dir8_apply(op, @)]
  /\ hist' = Append(hist, [op |-> op, from |-> heading])
  /\ UNCHANGED <<states, button, axis, dir, mouse>>

\* heading.d4 = heading.d4.inv()
Turn4 ==
  /\ Len(hist) < MaxTurns
  /\ heading' = [heading EXCEPT !.d4 = Dir4_inv(@)]
  /\ hist' = Append(hist, [op |-> "inv4", from |-> heading])
  /\ UNCHANGED <<states, button, axis, dir, mouse>>

InitTurn ==
  /\ states = Keyboard_default
  /\ button = Button_new(<<>>, NoRepeat)
  /\ axis = AxisIdle
  /\ dir = DirIdle
  /\ \E d8 \in Dir8Values, d4 \in Dir4Values : heading = [d8 |-> d8, d4 |-> d4]
  /\ mouse = Mouse_new
  /\ hist = <<>>

NextTurn ==
  \/ \E op \in TurnOps : Turn8(op)
  \/ Turn4

SpecTurn == InitTurn /\ [][NextTurn]_vars

-----------------------------------------------------------------------------
(* SpecClear: the calls of Spec and Input::clear.  hist is the latest call  *)
(* when that is an update or a clear, and empty otherwise.                  *)

InitClear ==
  /\ states = Keyboard_default
  /\ \E bundle \in Bundles, cfg \in RepeatConfigs : button = Button_new(bundle, cfg)
  /\ axis = AxisIdle
  /\ dir = DirIdle
  /\ heading = HeadingIdle
  /\ mouse = Mouse_new
  /\ hist = <<>>

NextClear ==
  \/ \E ext \in ExtKeys : KeyDownEvent(ext, 0)
  \/ \E ext \in ExtKeys : KeyUpEvent(ext, 0)
  \/ OnEndFrame(0)
  \/ \E dt \in 0..MaxDt : UpdateButton(dt, 1)
  \/ ClearInput(1)

SpecClear == InitClear /\ [][NextClear]_vars

-----------------------------------------------------------------------------
(* SpecZero: the button of SpecTimer under the configurations ZeroConfigs,  *)
(* which KeyRepeatConfig::repeat accepts as it accepts every pair of        *)
(* Durations.  An update that does not return is not a step.                *)

InitZero ==
  /\ states = Keyboard_default
  /\ \E cfg \in ZeroConfigs : button = Button_new(TimerBundle, cfg)
  /\ axis = AxisIdle
  /\ dir = DirIdle
  /\ heading = HeadingIdle
  /\ mouse = Mouse_new
  /\ hist = <<>>

NextZero ==
  \/ KeyDown("Keycode::A")
  \/ KeyUp("Keycode::A")
  \/ EndFrame
  \/ \E dt \in 0..MaxDt : Update(dt)

SpecZero == InitZero /\ [][NextZero]_vars

----------------------------------------------------------------------------
(* SpecEvents: the keyboard alone under key events of EventKeys and         *)
(* on_end_frame, with at most MaxDown keys down at once.  hist is the       *)
(* latest call.                                                             *)

\* The identifiers of the keys whose bit is set in `bits`
DownKeys(bits) == UNION {{32 * w + b : b \in bits[w]} : w \in 0..(NumWords - 1)}

InitEvents ==
  /\ states = Keyboard_default
  /\ button = Button_new(<<>>, NoRepeat)
  /\ axis = AxisIdle
  /\ dir = DirIdle
  /\ heading = HeadingIdle
  /\ mouse = Mouse_new
  /\ hist = <<>>

NextEvents ==
  \/ \E ext \in EventKeys :
       /\ Cardinality(DownKeys(Keyboard_on_key_down(states, ext).a)) <= MaxDown
       /\ KeyDownEvent(ext, 1)
  \/ \E ext \in EventKeys : KeyUpEvent(ext, 1)
  \/ OnEndFrame(1)

SpecEvents == InitEvents /\ [][NextEvents]_vars

----------------------------------------------------------------------------
(* Reading the call history (SpecKbd: hist is the whole sequence of calls) *)

KeyDownCall(ext) == Call("key_down", ext, 0)
KeyUpCall(ext) == Call("key_up", ext, 0)
EndFrameCall == Call("on_end_frame", "", 0)

\* The calls made so far end with `calls`
EndsWith(calls) ==
  /\ Len(hist) >= Len(calls)
  /\ SubSeq(hist, Len(hist) - Len(calls) + 1, Len(hist)) = calls

\* The Double after the first i calls of hist
RECURSIVE StatesAfter(_)
StatesAfter(i) ==
  IF i = 0 THEN Keyboard_default
  ELSE LET st == StatesAfter(i - 1)
           call == hist[i]
       IN CASE call.op = "key_down" -> Keyboard_on_key_down(st, call.key)
            [] call.op = "key_up" -> Keyboard_on_key_up(st, call.key)
            [] call.op = "on_end_frame" -> Keyboard_on_end_frame(st)
            [] OTHER -> st

\* Key `key` was up in both buffers before the last n calls
StartedUp(key, n) ==
  LET st == StatesAfter(Len(hist) - n)
  IN is_up(st.a, key) /\ is_up(st.b, key)

\* Reference semantics, read off the calls alone: among the first n calls the
\* latest key event for `key` is a key-down
DownAfterCalls(key, n) ==
  LET evs == {i \in 1..n : /\ hist[i].op \in {"key_down", "key_up"}
                           /\ hist[i].key \in DOMAIN e2x
                           /\ e2x[hist[i].key] = key}
  IN /\ evs # {}
     /\ hist[CHOOSE i \in evs : \A j \in evs : j <= i].op = "key_down"

\* The index of the latest on_end_frame call (0 when there is none)
LastEndFrame ==
  LET ends == {i \in 1..Len(hist) : hist[i].op = "on_end_frame"}
  IN IF ends = {} THEN 0 ELSE CHOOSE i \in ends : \A j \in ends : j <= i

----------------------------------------------------------------------------
(* C1: edge correctness, as claimed: for a key k up in both buffers, after *)
(* [key-down k, on_end_frame] is_key_pressed(k) is true, and after one     *)
(* more on_end_frame is_key_pressed(k) is false and is_key_down(k) true.   *)
C1_PressedAfterSwap ==
  \A ext \in KbdExtKeys :
    /\ (EndsWith(<<KeyDownCall(ext), EndFrameCall>>) /\ StartedUp(e2x[ext], 2))
         => is_key_pressed(states, e2x[ext])
    /\ (EndsWith(<<KeyDownCall(ext), EndFrameCall, EndFrameCall>>) /\ StartedUp(e2x[ext], 3))
         => (~is_key_pressed(states, e2x[ext]) /\ is_key_down(states, e2x[ext]))

(* C1 amended: for a key k up in both buffers, is_key_pressed(k) is true   *)
(* after the key-down event for k and before on_end_frame; after the       *)
(* on_end_frame that follows, and after one more, is_key_pressed(k) is     *)
(* false and is_key_down(k) is true.                                       *)
C1_PressedUntilSwap ==
  \A ext \in KbdExtKeys :
    /\ (EndsWith(<<KeyDownCall(ext)>>) /\ StartedUp(e2x[ext], 1))
         => (is_key_pressed(states, e2x[ext]) /\ is_key_down(states, e2x[ext]))
    /\ (EndsWith(<<KeyDownCall(ext), EndFrameCall>>) /\ StartedUp(e2x[ext], 2))
         => (~is_key_pressed(states, e2x[ext]) /\ is_key_down(states, e2x[ext]))
    /\ (EndsWith(<<KeyDownCall(ext), EndFrameCall, EndFrameCall>>) /\ StartedUp(e2x[ext], 3))
         => (~is_key_pressed(states, e2x[ext]) /\ is_key_down(states, e2x[ext]))

C1_Witness ==
  \E ext \in KbdExtKeys :
    /\ Len(hist) > 2
    /\ EndsWith(<<KeyDownCall(ext), EndFrameCall>>)
    /\ StartedUp(e2x[ext], 2)
    /\ is_key_down(states, e2x[ext])
    /\ ~is_key_pressed(states, e2x[ext])

(* C2: release correctness, as claimed: for a key k that starts up, after  *)
(* [key-down k, on_end_frame, key-up k, on_end_frame] is_key_released(k)   *)
(* is true, and it is false after a third on_end_frame.                    *)
C2_ReleasedAfterSwap ==
  \A ext \in KbdExtKeys :
    /\ (/\ EndsWith(<<KeyDownCall(ext), EndFrameCall, KeyUpCall(ext), EndFrameCall>>)
        /\ StartedUp(e2x[ext], 4))
         => is_key_released(states, e2x[ext])
    /\ (/\ EndsWith(<<KeyDownCall(ext), EndFrameCall, KeyUpCall(ext), EndFrameCall,
                      EndFrameCall>>)
        /\ StartedUp(e2x[ext], 5))
         => ~is_key_released(states, e2x[ext])

(* C2 amended: for a key k that starts up, after [key-down k,              *)
(* on_end_frame, key-up k] is_key_released(k) is true until the second     *)
(* on_end_frame; it is false after the second on_end_frame and after a     *)
(* third one during which k received no event.                             *)
C2_ReleasedUntilSwap ==
  \A ext \in KbdExtKeys :
    /\ (/\ EndsWith(<<KeyDownCall(ext), EndFrameCall, KeyUpCall(ext)>>)
        /\ StartedUp(e2x[ext], 3))
         => (is_key_released(states, e2x[ext]) /\ is_key_up(states, e2x[ext]))
    /\ (/\ EndsWith(<<KeyDownCall(ext), EndFrameCall, KeyUpCall(ext), EndFrameCall>>)
        /\ StartedUp(e2x[ext], 4))
         => (~is_key_released(states, e2x[ext]) /\ is_key_up(states, e2x[ext]))
    /\ (/\ EndsWith(<<KeyDownCall(ext), EndFrameCall, KeyUpCall(ext), EndFrameCall,
                      EndFrameCall>>)
        /\ StartedUp(e2x[ext], 5))
         => (~is_key_released(states, e2x[ext]) /\ is_key_up(states, e2x[ext]))

C2_Witness ==
  \E ext \in KbdExtKeys :
    /\ EndsWith(<<KeyDownCall(ext), EndFrameCall, KeyUpCall(ext), EndFrameCall>>)
    /\ StartedUp(e2x[ext], 4)
    /\ ~is_key_released(states, e2x[ext])
    /\ is_key_up(states, e2x[ext])

(* C3: in every reachable state and for every key k, is_key_pressed(k) is  *)
(* (previous has k up and current has k down) and is_key_released(k) is    *)
(* (previous has k down and current has k up), where k is down in current  *)
(* iff the latest key event for k was a key-down, and down in previous iff *)
(* that was so at the latest on_end_frame.                                 *)
C3_EdgesFromBuffers ==
  \A key \in Keys \cup {Key_None} :
    LET cur == DownAfterCalls(key, Len(hist))
        prev == DownAfterCalls(key, LastEndFrame)
    IN /\ is_key_pressed(states, key) = (~prev /\ cur)
       /\ is_key_released(states, key) = (prev /\ ~cur)

C3_Witness ==
  \E k1 \in Keys, k2 \in Keys :
    /\ is_key_pressed(states, k1)
    /\ is_key_released(states, k2)
    /\ LastEndFrame > 0

(* C4: a key k that has received no key-down event is up (is_key_down(k)   *)
(* false, is_key_up(k) true) in every state from initialization on,        *)
(* whatever events other keys received and however often on_end_frame ran. *)
C4_NeverSetStaysUp ==
  \A key \in Keys \cup {Key_None} :
    (\A i \in 1..Len(hist) :
        ~(hist[i].op = "key_down" /\ hist[i].key \in DOMAIN e2x /\ e2x[hist[i].key] = key))
      => (~is_key_down(states, key) /\ is_key_up(states, key) /\ is_up(states.b, key))

C4_Witness ==
  /\ EndsWith(<<KeyDownCall("Keycode::LCtrl"), KeyUpCall("Keycode::A"), EndFrameCall>>)
  /\ \A i \in 1..Len(hist) : hist[i] # KeyDownCall("Keycode::A")
  /\ is_key_up(states, Key_A)
  /\ is_key_down(states, Key_LCtrl)

(* C5: right after on_end_frame (also a repeated one, no key event in      *)
(* between) previous equals current, no key is pressed or released, and    *)
(* every bundle classifies as Down or Up.                                  *)
C5_QuietAfterSwap ==
  EndsWith(<<EndFrameCall>>) =>
    /\ states.b = states.a
    /\ \A key \in Keys \cup {Key_None} :
         ~is_key_pressed(states, key) /\ ~is_key_released(states, key)
    /\ \A bundle \in Bundles : InputBundle_state(bundle, states) \in {"Down", "Up"}

C5_Witness ==
  /\ EndsWith(<<KeyDownCall("Keycode::A"), EndFrameCall, EndFrameCall>>)
  /\ InputBundle_state(<<KeyEntry(Key_A, FALSE, FALSE, FALSE)>>, states) = "Down"
  /\ InputBundle_state(<<KeyEntry(Key_B, FALSE, FALSE, FALSE)>>, states) = "Up"

----------------------------------------------------------------------------
(* Chords as the claims describe them *)

HasModifier(entry) == entry.ctrl \/ entry.shift \/ entry.meta

\* At least one physical side of every required modifier is down in `bits`
ModifiersDown(entry, bits) ==
  /\ entry.ctrl => (is_down(bits, Key_LCtrl) \/ is_down(bits, Key_RCtrl))
  /\ entry.shift => (is_down(bits, Key_LShift) \/ is_down(bits, Key_RShift))
  /\ entry.meta => (is_down(bits, Key_LMeta) \/ is_down(bits, Key_RMeta))

\* The chord is satisfied in `bits`: primary key and required modifiers down
ChordSatisfied(entry, bits) == is_down(bits, entry.key) /\ ModifiersDown(entry, bits)

\* The chord is pressed: primary key up -> down, modifiers down in current
ChordPressed(entry, st) ==
  /\ is_up(st.b, entry.key)
  /\ is_down(st.a, entry.key)
  /\ ModifiersDown(entry, st.a)

\* Every key the chord's loop iteration tests went up -> down in this frame
ChordAllEdges(entry, st) ==
  \A key \in added_keys(entry) : is_up(st.b, key) /\ is_down(st.a, key)

\* The latest call was Button::update
UpdatedNow == hist # <<>> /\ hist[Len(hist)].op = "update"

(* C6: when no chord is pressed and no chord is down in the current        *)
(* buffer but some chord was satisfied in the previous buffer, the bundle  *)
(* state is Released and Button::update sets Released; it is Up only when  *)
(* no chord was satisfied in the previous buffer either.                   *)
C6_ReleasedWhenChordLetGo ==
  LET keys == button.input
      idx == 1..Len(keys)
  IN (/\ \A i \in idx : ~ChordPressed(keys[i], states)
      /\ \A i \in idx : ~ChordSatisfied(keys[i], states.a))
       => IF \E i \in idx : ChordSatisfied(keys[i], states.b)
            THEN /\ InputBundle_state(keys, states) = "Released"
                 /\ UpdatedNow => button.state = "Released"
            ELSE InputBundle_state(keys, states) = "Up"

(* C7: in a bundle of at least two chords, when one chord goes from        *)
(* satisfied to not satisfied while a different chord is satisfied in the  *)
(* current buffer and no chord is pressed, the bundle state is Down.       *)
C7_DownMasksRelease ==
  LET keys == button.input
      idx == 1..Len(keys)
  IN \A i \in idx, j \in idx :
       (/\ i # j
        /\ ChordSatisfied(keys[i], states.b)
        /\ ~ChordSatisfied(keys[i], states.a)
        /\ ChordSatisfied(keys[j], states.a)
        /\ \A m \in idx : ~ChordPressed(keys[m], states))
         => InputBundle_state(keys, states) = "Down"

(* C8: a chord that requires a modifier counts as down exactly when its    *)
(* primary key is down and at least one side of each required modifier is  *)
(* down in the current buffer.                                             *)
C8_EitherSideModifier ==
  \A entry \in Chords :
    HasModifier(entry) =>
      /\ entry_is_down(entry, states) = ChordSatisfied(entry, states.a)
      /\ (InputBundle_state(<<entry>>, states) \in {"Down", "Pressed"})
           = ChordSatisfied(entry, states.a)

(* C9: a chord with required modifiers is pressed in a frame where its     *)
(* primary key went up -> down and the required modifiers are down in the  *)
(* current buffer; the bundle state is then Pressed.                       *)
C9_ModifiersNeedNoEdge ==
  \A entry \in Chords :
    (HasModifier(entry) /\ ChordPressed(entry, states))
      => InputBundle_state(<<entry>>, states) = "Pressed"

\* The case of C10: a bundle of two chords, the first held since an earlier
\* frame, the second becoming satisfied in this frame
C10_Case ==
  /\ Len(button.input) = 2
  /\ ChordSatisfied(button.input[1], states.b)
  /\ ChordSatisfied(button.input[1], states.a)
  /\ ~ChordSatisfied(button.input[2], states.b)
  /\ ChordSatisfied(button.input[2], states.a)

----------------------------------------------------------------------------
\* Every reordering of the sequence s
Reorderings(s) ==
  {[i \in 1..Len(s) |-> s[p[i]]] : p \in Permutations(1..Len(s))}

(* C11: for every pair of buffers and every bundle, InputBundle::state     *)
(* returns the same classification for every permutation of the bundle's   *)
(* chord list (here: the button's bundle extended by any further chord).   *)
C11_ChordOrderIrrelevant ==
  \A entry \in Chords :
    LET keys == Append(button.input, entry)
        state == InputBundle_state(keys, states)
    IN \A other \in Reorderings(keys) : InputBundle_state(other, states) = state

C11_Witness ==
  /\ Len(button.input) = 2
  /\ button.input[1] # button.input[2]
  /\ entry_is_down(button.input[1], states)
  /\ ~entry_is_pressed(button.input[1], states)
  /\ entry_is_pressed(button.input[2], states)
  /\ InputBundle_state(button.input, states) = "Pressed"
  /\ InputBundle_state(<<button.input[2], button.input[1]>>, states) = "Pressed"

----------------------------------------------------------------------------
(* C13: at every reachable timer state and for every dt,                    *)
(* KeyRepeatState::update with classification Up, Released or Pressed       *)
(* leaves accum_repeat and accum_down at zero and returns false; the        *)
(* first-repeat flag is true after Pressed and false after Up or Released.  *)
C13_ResetArms ==
  \A state \in {"Up", "Released", "Pressed"}, dt \in 0..MaxDt :
    LET u == KeyRepeatState_update(button.repeat, state, dt)
    IN /\ u.repeat.accum_repeat = 0
       /\ u.repeat.accum_down = 0
       /\ u.is_repeating = FALSE
       /\ u.repeat.is_on_first_repeat = (state = "Pressed")
       /\ u.repeat.config = button.repeat.config

\* A prior timer state with both accumulators running after a repeat fired
C13_Witness ==
  /\ button.repeat.accum_down > 0
  /\ button.repeat.accum_repeat > 0
  /\ ~button.repeat.is_on_first_repeat
  /\ KeyRepeatState_update(button.repeat, "Pressed", MaxDt).repeat.is_on_first_repeat

(* C15: a Button configured with KeyRepeatConfig::NoRepeat never has state  *)
(* Repeating and its accum_down() is zero in every reachable state.         *)
C15_NoRepeatNeverRepeats ==
  button.repeat.config = NoRepeat =>
    (button.state # "Repeating" /\ Button_accum_down(button) = 0)

(* C15 amended: a Button whose configuration is NoRepeat has accum_down()   *)
(* zero in every reachable state and does not have state Repeating after    *)
(* any Button::update; set_repeat_config(NoRepeat) leaves the state of the  *)
(* last update, possibly Repeating, in place until the next update.         *)
C15_NoRepeatOnceUpdated ==
  button.repeat.config = NoRepeat =>
    /\ Button_accum_down(button) = 0
    /\ button.repeat.accum_repeat = 0
    /\ UpdatedNow => button.state # "Repeating"

\* A NoRepeat button held down over an update with a positive dt
C15_Witness ==
  /\ button.repeat.config = NoRepeat
  /\ UpdatedNow
  /\ hist[Len(hist)].dt > 0
  /\ button.state = "Down"
  /\ InputBundle_state(button.input, states) = "Down"

(* C18: after every Button::update, is_down() is true exactly when state    *)
(* is Down, Pressed or Repeating and is_pressed() exactly when state is     *)
(* Pressed or Repeating; is_pressed() implies is_down(); and for a bundle   *)
(* of modifier-free chords is_down() is true iff some chord's key is down   *)
(* in the current buffer.                                                   *)
C18_QueriesMatchState ==
  UpdatedNow =>
    /\ Button_is_down(button) <=> button.state \in {"Down", "Pressed", "Repeating"}
    /\ Button_is_pressed(button) <=> button.state \in {"Pressed", "Repeating"}
    /\ Button_is_pressed(button) => Button_is_down(button)
    /\ (\A i \in 1..Len(button.input) : ~HasModifier(button.input[i]))
         => (Button_is_down(button)
               <=> \E i \in 1..Len(button.input) :
                     is_key_down(states, button.input[i].key))

\* A repeating two-chord button whose first chord's key is up
C18_Witness ==
  /\ UpdatedNow
  /\ button.state = "Repeating"
  /\ Len(button.input) = 2
  /\ \A i \in 1..2 : ~HasModifier(button.input[i])
  /\ ~is_key_down(states, button.input[1].key)
  /\ is_key_down(states, button.input[2].key)
  /\ Button_is_pressed(button)

----------------------------------------------------------------------------
(* Reading the run of updates (SpecTimer) *)

\* The configured delays of the button
FirstOf(btn) == btn.repeat.config.first
MultiOf(btn) == btn.repeat.config.multi

\* The run is a Pressed update followed by Down updates that all pass `dt`,
\* made by a repeating button whose delays `dt` divides
SteadyHold(dt) ==
  /\ button.repeat.config.kind = "Repeat"
  /\ FirstOf(button) % dt = 0
  /\ MultiOf(button) % dt = 0
  /\ Len(hist) >= 2
  /\ hist[1].raw = "Pressed"
  /\ \A i \in 2..Len(hist) : hist[i].dt = dt

\* The time the key has been held at the i-th update of such a run
HeldAt(i, dt) == (i - 1) * dt

\* The sum of the dt values of the Down updates among the first i of the run
RECURSIVE DownTime(_)
DownTime(i) ==
  IF i = 0 THEN 0
  ELSE DownTime(i - 1) + (IF hist[i].raw = "Down" THEN hist[i].dt ELSE 0)

(* C12, as claimed: held with a fixed tick dt dividing F and M, the button  *)
(* reports Repeating on the update at which the held time reaches exactly   *)
(* F and then once every M of held time, and on no other update.            *)
C12_RepeatsAtFirstDelay ==
  \A dt \in 1..MaxTick :
    SteadyHold(dt) =>
      \A i \in 2..Len(hist) :
        hist[i].state =
          IF /\ HeldAt(i, dt) >= FirstOf(button)
             /\ (HeldAt(i, dt) - FirstOf(button)) % MultiOf(button) = 0
            THEN "Repeating" ELSE "Down"

(* C12 amended: held with a fixed tick dt dividing F and M, the button      *)
(* reports no Repeating while the held time is at most F, reports           *)
(* Repeating on the first update at which the held time exceeds F (held     *)
(* time F + dt), and afterwards once every M of held time.                  *)
C12_RepeatsPastFirstDelay ==
  \A dt \in 1..MaxTick :
    SteadyHold(dt) =>
      \A i \in 2..Len(hist) :
        hist[i].state =
          IF /\ HeldAt(i, dt) > FirstOf(button)
             /\ (HeldAt(i, dt) - FirstOf(button) - dt) % MultiOf(button) = 0
            THEN "Repeating" ELSE "Down"

\* A steady hold that has repeated twice, with a Down update in between
C12_Witness ==
  /\ SteadyHold(1)
  /\ MultiOf(button) > 1
  /\ \E i, j, k \in 2..Len(hist) :
       /\ i < j /\ j < k
       /\ hist[i].state = "Repeating"
       /\ hist[j].state = "Down"
       /\ hist[k].state = "Repeating"

(* C14: after a Down update of a repeat-enabled button that reported        *)
(* Repeating, the repeat accumulator is left so that a following Down       *)
(* update that adds no time does not report a left-over repeat.             *)
C14_NoLeftOverRepeat ==
  ( /\ hist # <<>>
    /\ hist[Len(hist)].raw = "Down"
    /\ hist[Len(hist)].state = "Repeating" )
  => ~KeyRepeatState_update(button.repeat, "Down", 0).is_repeating

(* C16: for a repeat-enabled Button, accum_down() equals the sum of the dt  *)
(* values of the Down updates of the current run (the consecutive Down      *)
(* updates since the latest update classified Up, Released or Pressed,      *)
(* or since construction); it is zero when that run has no Down update.     *)
C16_AccumDownIsSum ==
  button.repeat.config.kind = "Repeat" =>
    /\ Button_accum_down(button) = DownTime(Len(hist))
    /\ (hist = <<>> \/ hist[Len(hist)].raw # "Down") => Button_accum_down(button) = 0

\* A press followed by Down updates, one of which repeated, the sum positive
C16_Witness ==
  /\ button.repeat.config.kind = "Repeat"
  /\ Len(hist) >= 4
  /\ hist[1].raw = "Pressed"
  /\ \E i \in 2..(Len(hist) - 1) : hist[i].state = "Repeating"
  /\ \E i, j \in 2..Len(hist) : hist[i].dt # hist[j].dt
  /\ Button_accum_down(button) = DownTime(Len(hist))
  /\ Button_accum_down(button) > button.repeat.accum_repeat

----------------------------------------------------------------------------
(* Reading the frames off the call history (SpecFrames) *)

\* The index of the first key event of the latest block of key events
RECURSIVE BlockStart(_)
BlockStart(i) ==
  IF i > 1 /\ hist[i - 1].op \in {"key_down", "key_up"} THEN BlockStart(i - 1) ELSE i

\* The key events of the latest tick that had any took `key` from up to down,
\* and no key event came after that tick
WentDown(key) ==
  /\ LastKeyEvent > 0
  /\ is_up(StatesAfter(BlockStart(LastKeyEvent) - 1).a, key)
  /\ is_down(StatesAfter(LastKeyEvent).a, key)

\* The calls since the key went down: 1 or 2 in the tick of the press
CallsSincePress == Len(hist) - LastKeyEvent

\* Every Button::update was directly preceded by the tick's on_end_frame
StatedOrder ==
  \A i \in 1..Len(hist) :
    hist[i].op = "update" => (i > 1 /\ hist[i - 1].op = "on_end_frame")

(* C17, as claimed: when every tick applies its key events, then calls      *)
(* on_end_frame, then Button::update, a single-key button whose key goes    *)
(* down in tick N and stays held reports Pressed on tick N's update and     *)
(* Down or Repeating on every later update.                                 *)
C17_PressedAfterSwap ==
  (UpdatedNow /\ StatedOrder /\ WentDown(Key_A)) =>
    IF CallsSincePress <= 2
      THEN button.state = "Pressed"
      ELSE button.state \in {"Down", "Repeating"}

(* C17 amended: for a single-key button whose key goes down in tick N and   *)
(* stays held, tick N's update reports Pressed when it is called before     *)
(* the tick's on_end_frame and Down when it is called after it; every       *)
(* later update reports Down or Repeating, in either order of the calls.    *)
C17_PressedBeforeSwap ==
  (UpdatedNow /\ WentDown(Key_A)) =>
    CASE CallsSincePress = 1 -> button.state = "Pressed"
      [] CallsSincePress = 2 -> button.state = "Down"
      [] OTHER -> button.state \in {"Down", "Repeating"}

\* The second tick after a press that was reported as Pressed
C17_Witness ==
  /\ UpdatedNow
  /\ WentDown(Key_A)
  /\ CallsSincePress = 5
  /\ hist[LastKeyEvent + 1].op = "update"
  /\ hist[LastKeyEvent + 2].op = "on_end_frame"
  /\ button.state \in {"Down", "Repeating"}

----------------------------------------------------------------------------
(* C19: AxisButton::sign_down returns Neutral when neither side is_down,    *)
(* the sign of the only side that is_down when exactly one is, and when     *)
(* both are down the sign of the side with the strictly smaller accum_down, *)
(* Pos when both accum_down values are equal.                               *)
C19_SignDown ==
  LET p == Button_is_down(axis.pos)
      n == Button_is_down(axis.neg)
      sign == AxisButton_sign_down(axis)
  IN /\ (~p /\ ~n) => sign = "Neutral"
     /\ (p /\ ~n) => sign = "Pos"
     /\ (~p /\ n) => sign = "Neg"
     /\ (p /\ n /\ Button_accum_down(axis.pos) < Button_accum_down(axis.neg)) => sign = "Pos"
     /\ (p /\ n /\ Button_accum_down(axis.neg) < Button_accum_down(axis.pos)) => sign = "Neg"
     /\ (p /\ n /\ Button_accum_down(axis.pos) = Button_accum_down(axis.neg)) => sign = "Pos"

\* Both sides of a repeating axis pressed in the same frame and held since:
\* equal, positive down times
C19_Witness ==
  /\ hist.updated
  /\ hist.frames["Pos"] > 0
  /\ hist.frames["Pos"] = hist.frames["Neg"]
  /\ Button_is_down(axis.pos) /\ Button_is_down(axis.neg)
  /\ Button_accum_down(axis.pos) > 0
  /\ Button_accum_down(axis.pos) = Button_accum_down(axis.neg)
  /\ AxisButton_sign_down(axis) = "Pos"

(* C20: latest input wins: when the two sides of an AxisButton, whatever    *)
(* its repeat configuration, were pressed in different frames (dt > 0) and  *)
(* both have been held since, sign_down() is the sign of the side pressed   *)
(* later, in the frame of the later press and in every following frame.     *)
C20_LatestInputWins ==
  ( /\ hist.frames["Pos"] >= 0
    /\ hist.frames["Neg"] >= 0
    /\ hist.frames["Pos"] # hist.frames["Neg"] )
  => AxisButton_sign_down(axis) =
       IF hist.frames["Pos"] < hist.frames["Neg"] THEN "Pos" ELSE "Neg"

----------------------------------------------------------------------------
\* sign_pressed() is the side sign_down() selects when that side is_pressed()
SignPressedFollowsSignDown(ax) ==
  LET selected == AxisButton_sign_down(ax)
  IN AxisButton_sign_pressed(ax) =
       IF selected # "Neutral" /\ Button_is_pressed(SideButton(ax, selected))
         THEN selected ELSE "Neutral"

(* C21: sign_pressed selects a side by the rule of sign_down and returns    *)
(* its sign iff that side is_pressed(), else Neutral; so it is Neutral or   *)
(* equal to sign_down(); and when one side is held and the other side is    *)
(* freshly pressed in this frame, it returns the freshly pressed side.      *)
C21_SignPressed ==
  /\ SignPressedFollowsSignDown(axis)
  /\ AxisButton_sign_pressed(axis) \in {"Neutral", AxisButton_sign_down(axis)}
  /\ \A held, fresh \in {"Pos", "Neg"} :
       (hist.frames[held] > 0 /\ hist.frames[fresh] = 0)
         => AxisButton_sign_pressed(axis) = fresh

(* C22: whenever at least one side of the axis is down,                     *)
(* AxisButton::accum_down() equals Button::accum_down of the most recently  *)
(* activated side that is down (of the only side down when there is one).   *)
C22_AccumDownOfLatestSide ==
  LET down == {s \in {"Pos", "Neg"} : Button_is_down(SideButton(axis, s))}
      latest == {s \in down : \A t \in down : hist.frames[s] <= hist.frames[t]}
  IN down # {} =>
       \E s \in latest :
         AxisButton_accum_down(axis) = Button_accum_down(SideButton(axis, s))

----------------------------------------------------------------------------
(* SpecEvents: the step just taken, read off hist' *)

KeyDownStep(ext) == hist' = <<KeyDownCall(ext)>>
KeyUpStep(ext) == hist' = <<KeyUpCall(ext)>>
EndFrameStep == hist' = <<EndFrameCall>>

(* C26: a key-down or key-up event whose native key has no entry in the     *)
(* translation table leaves the current and the previous buffer unchanged.  *)
C26_UnmappedKeyIgnored ==
  [][\A ext \in EventKeys \ DOMAIN e2x :
       (KeyDownStep(ext) \/ KeyUpStep(ext)) => states' = states]_vars

\* An unmapped key event has just been handled while keys are held
C26_Witness ==
  /\ hist \in {<<KeyDownCall("Keycode::Mute")>>, <<KeyUpCall("Keycode::Mute")>>}
  /\ "Keycode::Mute" \notin DOMAIN e2x
  /\ DownKeys(states.a) # {}
  /\ DownKeys(states.a) # DownKeys(states.b)

\* The elements of the set of numbers S in ascending order
RECURSIVE Ascending(_)
Ascending(S) ==
  IF S = {} THEN <<>>
  ELSE LET least == CHOOSE x \in S : \A y \in S : x <= y
       IN <<least>> \o Ascending(S \ {least})

(* C27: for every snapshot reachable by key events, pressed_keys returns    *)
(* exactly the keys that are down, each once, in ascending identifier       *)
(* order, and does not panic, in every build.                               *)
C27_PressedKeysAscending ==
  \A overflow_checks \in BOOLEAN :
    LET r == pressed_keys(states.a, overflow_checks)
    IN ~r.panic /\ r.keys = Ascending(DownKeys(states.a))

(* C28: after any sequence of key events and on_end_frame calls the bit of  *)
(* Key::None (identifier 0) is clear in both buffers, and no row of the     *)
(* translation table names Key::None.                                       *)
C28_NoneNeverSet ==
  /\ is_up(states.a, Key_None)
  /\ is_up(states.b, Key_None)
  /\ \A ext \in DOMAIN e2x : e2x[ext] # Key_None

\* Keys of word 0, the word of Key::None, are down in both buffers
C28_Witness ==
  /\ hist = <<EndFrameCall>>
  /\ e2x["Keycode::Backspace"] \in DownKeys(states.a)
  /\ e2x["Keycode::Backspace"] \in DownKeys(states.b)
  /\ KeyIx(e2x["Keycode::Backspace"]) = KeyIx(Key_None)
  /\ Cardinality(DownKeys(states.b)) = MaxDown

(* C29: a key-down or key-up event for key k changes only k's bit of the    *)
(* current buffer and leaves the previous buffer and every other key's bit  *)
(* unchanged; on_end_frame makes the whole previous buffer equal to the     *)
(* current buffer in one step and leaves the current buffer unchanged.      *)
C29_FrameConditions ==
  [][/\ \A ext \in EventKeys \cap DOMAIN e2x :
          /\ KeyDownStep(ext) =>
                /\ DownKeys(states'.a) = DownKeys(states.a) \cup {e2x[ext]}
                /\ states'.b = states.b
          /\ KeyUpStep(ext) =>
                /\ DownKeys(states'.a) = DownKeys(states.a) \ {e2x[ext]}
                /\ states'.b = states.b
     /\ EndFrameStep => (states'.b = states.a /\ states'.a = states.a)
     /\ \A w \in 0..(NumWords - 1) : states'.a[w] \subseteq 0..31 /\ states'.b[w] \subseteq 0..31
    ]_vars

\* A key-down in a word that already holds another key, the buffers differing
C29_Witness ==
  /\ hist = <<KeyDownCall("Keycode::B")>>
  /\ DownKeys(states.a) = {Key_A, Key_B}
  /\ DownKeys(states.b) = {Key_A}


\* C30: a Button written through button_serde_with and read back has the same
\* InputBundle, state Up, both accumulators zero and the first-repeat flag
\* clear, whatever runtime state the original has.
C30_SerdeRoundTrip ==
  LET back == button_serde_with_deserialize(button_serde_with_serialize(button))
  IN /\ back.input = button.input
     /\ back.state = "Up"
     /\ back.repeat.accum_down = 0
     /\ back.repeat.accum_repeat = 0
     /\ back.repeat.is_on_first_repeat = FALSE

\* A held, repeating button with a ctrl chord and a plain chord, whose written
\* form carries no runtime field
C30_Witness ==
  /\ button.state = "Repeating"
  /\ button.repeat.accum_down > 0
  /\ button.repeat.config # NoRepeat
  /\ \E i, j \in 1..Len(button.input) : button.input[i].ctrl /\ ~button.input[j].ctrl
  /\ DOMAIN button_serde_with_serialize(button) = {"keys"}

-----------------------------------------------------------------------------
\* The side of an axis of `dir` that is held alone, "None" when there is none
HeldAlone(a) ==
  IF hist.frames[<<a, "Pos">>] >= 0 /\ hist.frames[<<a, "Neg">>] = -1 THEN "Pos"
  ELSE IF hist.frames[<<a, "Neg">>] >= 0 /\ hist.frames[<<a, "Pos">>] = -1 THEN "Neg"
  ELSE "None"

\* The Dir4 an axis points to when its sign is `sign`
Dir4Of(a, sign) ==
  IF a = "x" THEN (IF sign = "Pos" THEN "E" ELSE "W")
  ELSE (IF sign = "Pos" THEN "S" ELSE "N")

(* C23: with repeat enabled and one button held on each axis, the two      *)
(* pressed in different frames, dir4_down() is the direction of the axis    *)
(* activated most recently, x or y.                                         *)
C23_Dir4LatestAxis ==
  LET sx == HeldAlone("x")
      sy == HeldAlone("y")
      fx == hist.frames[<<"x", sx>>]
      fy == hist.frames[<<"y", sy>>]
  IN (/\ dir.x.pos.repeat.config # NoRepeat
      /\ sx # "None" /\ sy # "None"
      /\ fx # fy)
     => dir4_down(dir) = (IF fx < fy THEN Dir4Of("x", sx) ELSE Dir4Of("y", sy))

\* The compass value of a pair of signs, y growing downwards
Compass ==
  [p \in {-1, 0, 1} \X {-1, 0, 1} |->
     CASE p = <<0, 0>> -> "None"
       [] p = <<0, -1>> -> "N"
       [] p = <<1, -1>> -> "NE"
       [] p = <<1, 0>> -> "E"
       [] p = <<1, 1>> -> "SE"
       [] p = <<0, 1>> -> "S"
       [] p = <<-1, 1>> -> "SW"
       [] p = <<-1, 0>> -> "W"
       [] p = <<-1, -1>> -> "NW"]

(* C24: dir8_down() and dir8_pressed() are the compass value of the two    *)
(* axes' signs, None for (0, 0), the value Dir8::from_signs gives, and      *)
(* never the unreachable arm.                                               *)
C24_Dir8Complete ==
  /\ LET sx == AxisButton_sign_down(dir.x)
         sy == AxisButton_sign_down(dir.y)
     IN /\ dir8_down(dir) = Compass[<<Sign_to_i8(sx), Sign_to_i8(sy)>>]
        /\ dir8_down(dir) = Dir8_from_signs(<<sx, sy>>)
  /\ LET sx == AxisButton_sign_pressed(dir.x)
         sy == AxisButton_sign_pressed(dir.y)
     IN /\ dir8_pressed(dir) = Compass[<<Sign_to_i8(sx), Sign_to_i8(sy)>>]
        /\ dir8_pressed(dir) = Dir8_from_signs(<<sx, sy>>)

\* Left and Up held, Up pressed in this frame
C24_Witness ==
  /\ hist.updated
  /\ dir8_down(dir) = "NW"
  /\ dir8_pressed(dir) = "N"

\* A result of dir4 for the signs sx, sy: None iff both are Neutral, else a
\* direction of a non-neutral axis, on that sign's side
Dir4Sound(result, sx, sy) ==
  /\ result = "None" <=> (sx = "Neutral" /\ sy = "Neutral")
  /\ result # "None" =>
       \/ sx # "Neutral" /\ result = Dir4Of("x", sx)
       \/ sy # "Neutral" /\ result = Dir4Of("y", sy)

(* C25: dir4_down() and dir4_pressed() are None iff both axis signs are    *)
(* Neutral, otherwise a direction of a non-neutral axis pointing to its     *)
(* sign's side, and never an unreachable arm.                               *)
C25_Dir4Sound ==
  /\ Dir4Sound(dir4_down(dir), AxisButton_sign_down(dir.x), AxisButton_sign_down(dir.y))
  /\ Dir4Sound(dir4_pressed(dir), AxisButton_sign_pressed(dir.x),
               AxisButton_sign_pressed(dir.y))

\* Both axes are non-neutral and the y axis gives the direction: the inner
\* match on y is taken, while nothing is pressed in this frame
C25_Witness ==
  /\ hist.updated
  /\ AxisButton_sign_down(dir.x) = "Neg"
  /\ AxisButton_sign_down(dir.y) = "Pos"
  /\ AxisButton_accum_down(dir.x) > AxisButton_accum_down(dir.y)
  /\ dir4_down(dir) = "S"
  /\ dir4_pressed(dir) = "None"

-----------------------------------------------------------------------------
(* C31: KeyRepeatState::update terminates for every repeat configuration   *)
(* and every dt, a Repeat configuration with a zero interval included: in   *)
(* every reachable state the next Button::update returns, whatever dt.      *)
C31_UpdateTerminates ==
  \A dt \in 0..MaxDt :
    update_returns(button.repeat, InputBundle_state(button.input, states), dt)

-----------------------------------------------------------------------------
\* Down in the previous and in the current buffer
KeyHeld(st, key) == is_down(st.b, key) /\ is_down(st.a, key)

\* Up in the previous and in the current buffer
KeyIdle(st, key) == is_up(st.b, key) /\ is_up(st.a, key)

(* C32: for every key exactly one of pressed, released, held, idle holds;   *)
(* pressed implies is_key_down, released implies is_key_up, and pressed and *)
(* released never hold together.                                            *)
C32_FourWayPartition ==
  \A key \in KeyValues :
    LET pressed == is_key_pressed(states, key)
        released == is_key_released(states, key)
        held == KeyHeld(states, key)
        idle == KeyIdle(states, key)
    IN /\ pressed \/ released \/ held \/ idle
       /\ ~(pressed /\ released) /\ ~(pressed /\ held) /\ ~(pressed /\ idle)
       /\ ~(released /\ held) /\ ~(released /\ idle) /\ ~(held /\ idle)
       /\ pressed => is_key_down(states, key)
       /\ released => is_key_up(states, key)

\* The four cases side by side: A pressed, Kp0 released, B held, the rest idle
C32_Witness ==
  /\ is_key_pressed(states, Key_A)
  /\ is_key_released(states, Key["NumPad0"])
  /\ KeyHeld(states, Key_B)
  /\ KeyIdle(states, Key["F17"])

-----------------------------------------------------------------------------
(* C33: right after a Button::update the state is Repeating only if the    *)
(* bundle's raw state in that update was Down and the configuration is      *)
(* Repeat; then some chord is down, so there is no repeat on the frame of a *)
(* press or of a release or while no chord is down.  The update leaves the  *)
(* buffers, the bundle and the configuration as they were, so the raw state *)
(* of the update is the one read in the state after it.                     *)
C33_RepeatingOnlyWhenDown ==
  LET raw == InputBundle_state(button.input, states)
  IN (UpdatedNow /\ button.state = "Repeating")
     => /\ raw = "Down"
        /\ button.repeat.config.kind = "Repeat"
        /\ \E i \in 1..Len(button.input) : entry_is_down(button.input[i], states)
        /\ \A i \in 1..Len(button.input) : ~entry_is_pressed(button.input[i], states)

\* A repeat pulse of a held ctrl chord
C33_Witness ==
  /\ UpdatedNow
  /\ button.state = "Repeating"
  /\ \E i \in 1..Len(button.input) : button.input[i].ctrl
  /\ InputBundle_state(button.input, states) = "Down"

-----------------------------------------------------------------------------
\* The latest call is Input::clear
ClearedNow == hist = <<Call("clear", "", 0)>>

(* C34: right after Keyboard::clear every key is up in both buffers, so no  *)
(* key is down, pressed or released, and the next Button::update returns    *)
(* and sets the button's state to Up.                                       *)
C34_ClearResetsEverything ==
  ClearedNow =>
    /\ \A key \in KeyValues :
         /\ is_up(states.a, key) /\ is_up(states.b, key)
         /\ ~is_key_down(states, key)
         /\ ~is_key_pressed(states, key)
         /\ ~is_key_released(states, key)
    /\ InputBundle_state(button.input, states) = "Up"
    /\ \A dt \in 0..MaxDt :
         /\ update_returns(button.repeat, InputBundle_state(button.input, states), dt)
         /\ Button_update(button, states, dt).state = "Up"

\* clear came while the button was repeating with a positive down time
C34_Witness ==
  /\ ClearedNow
  /\ button.state = "Repeating"
  /\ button.repeat.accum_down > 0
  /\ Len(button.input) = 2

-----------------------------------------------------------------------------
\* The latest two calls of SpecTurn are op1 and then op2
LastTwo(op1, op2) ==
  /\ Len(hist) >= 2
  /\ hist[Len(hist) - 1].op = op1
  /\ hist[Len(hist)].op = op2

\* The Dir8 the call before the latest was made on
TwoBack == hist[Len(hist) - 1].from.d8

\* The entry of Dir8::CLOCKWISE after d, the first one after the last
NextClockwise(d) ==
  LET i == CHOOSE j \in 1..Len(Dir8_CLOCKWISE) : Dir8_CLOCKWISE[j] = d
  IN Dir8_CLOCKWISE[(i % Len(Dir8_CLOCKWISE)) + 1]

(* C35: l45 undoes r45 and r45 undoes l45 on each of the eight directions, *)
(* and r45 steps to the next entry of Dir8::CLOCKWISE, wrapping from NW to  *)
(* N.                                                                       *)
C35_L45InvertsR45 ==
  /\ (LastTwo("r45", "l45") \/ LastTwo("l45", "r45")) => heading.d8 = TwoBack
  /\ (hist # <<>> /\ hist[Len(hist)].op = "r45")
       => heading.d8 = NextClockwise(hist[Len(hist)].from.d8)

(* C36: l90 undoes r90 on each of the eight directions, two r45 calls give *)
(* what r90 gives and two l45 calls give what l90 gives.                    *)
C36_QuarterTurns ==
  /\ LastTwo("r90", "l90") => heading.d8 = TwoBack
  /\ LastTwo("r45", "r45") => heading.d8 = Dir8_r90(TwoBack)
  /\ LastTwo("l45", "l45") => heading.d8 = Dir8_l90(TwoBack)

(* C37: the signs of a Dir4, put through the mixer's dir4 table, give the  *)
(* Dir4 again; Dir4 and Dir8 give the same signs for N, E, S and W; and     *)
(* Dir8::from_signs of the signs of a Dir8 gives the Dir8 again.            *)
C37_SignConventionsAgree ==
  /\ dir4(dir, Sign_to_i8(Dir4_x_sign(heading.d4)), Sign_to_i8(Dir4_y_sign(heading.d4)))
       = heading.d4
  /\ Dir4_signs(heading.d4) = Dir8_signs(heading.d4)
  /\ Dir8_from_signs(Dir8_signs(heading.d8)) = heading.d8

-----------------------------------------------------------------------------
(* C38: is_any_pressed(inputs) is true iff some button of inputs is pressed *)
(* this frame, is_any_released(inputs) iff some button of inputs is         *)
(* released this frame; a button merely held makes neither true.            *)
C38_AnyPressedAnyReleased ==
  \A inputs \in SUBSET MouseInputs :
    /\ Mouse_is_any_pressed(mouse, inputs)
         <=> \E input \in inputs : Mouse_is_pressed(mouse, input)
    /\ Mouse_is_any_released(mouse, inputs)
         <=> \E input \in inputs : Mouse_is_released(mouse, input)

-----------------------------------------------------------------------------
(* C39: for every word of the current buffer count_bits returns the number *)
(* of its set bits, and no subtraction, addition or multiplication on the   *)
(* way leaves the range 0..2^32-1.                                          *)
C39_CountBitsInRange ==
  \A w \in 0..(NumWords - 1) :
    /\ count_bits_u32(states.a[w]).result = Cardinality(states.a[w])
    /\ ~count_bits_u32(states.a[w]).overflow

========================================================================
